---- MODULE Spec2Model ----
(***************************************************************************)
(* Model of the streaming chat-completion orchestrator                     *)
(* (StreamChatCompletionUseCase.execute), the provider event stream it     *)
(* consumes and the ToolExecutor it drives.                                *)
(*                                                                         *)
(* Strings that the code only copies (ids, names, text) are TLA+ strings.  *)
(* Argument text, which the code concatenates and hands to json.loads, is  *)
(* a sequence of one-character strings over the alphabet JsonChars.        *)
(***************************************************************************)
EXTENDS Integers, Sequences, FiniteSets, TLC

(***************************************************************************)
(* Bounds of the model.                                                    *)
(***************************************************************************)
\* number of low-level events the provider stream delivers at most
MaxEvents == 3
\* the same for the streams of tool-call fragments of SpecTools
MaxToolEvents == 6
\* tool-call positions are 0..MaxIndex
MaxIndex == 1

(***************************************************************************)
(* Python values.                                                          *)
(***************************************************************************)
\* Python's None where a str is expected (Optional[str])
None == "<None>"
\* Python's None where argument text is expected
NoneChunk == <<"<None>">>

\* the characters argument text is made of
JsonChars == {"{", "}", "\"", "a", ":", "1"}

\* Python truthiness of a str / of argument text
Truthy(s) == s # None /\ s # ""
TruthyChunk(c) == c # NoneChunk /\ c # <<>>

\* `x or ''` on an Optional[str]
OrEmpty(s) == IF Truthy(s) THEN s ELSE ""

(***************************************************************************)
(* json.loads on argument text over JsonChars.  A parsed value is          *)
(*   [num |-> n]                 an int                                    *)
(*   [str |-> chars]             a str                                     *)
(*   [obj |-> <<[k, v], ...>>]   a dict, members in insertion order        *)
(* and a scan result is [ok |-> TRUE, val, end] or [ok |-> FALSE].         *)
(***************************************************************************)
ScanFail == [ok |-> FALSE]

\* the decoder skips the whitespace characters between tokens
RECURSIVE SkipWhitespace(_, _)
SkipWhitespace(s, i) ==
    IF i <= Len(s) /\ s[i] \in {" ", "\t", "\n", "\r"}
    THEN SkipWhitespace(s, i + 1)
    ELSE i

\* the character a backslash escape stands for; a \uXXXX escape is kept as
\* one element naming the code point
Unescape(c) ==
    CASE c = "n" -> "\n"
      [] c = "t" -> "\t"
      [] c = "r" -> "\r"
      [] c = "f" -> "\f"
      [] c = "b" -> "\\b"
      [] OTHER -> c

\* py_scanstring from index i on, `chars` being the content scanned so far:
\* up to the closing quote, escapes decoded, raw control characters refused
RECURSIVE ScanChars(_, _, _)
ScanChars(s, i, chars) ==
    IF i > Len(s) THEN ScanFail
    ELSE IF s[i] = "\"" THEN [ok |-> TRUE, val |-> [str |-> chars], end |-> i + 1]
    ELSE IF s[i] \in {"\n", "\t", "\r", "\f"} THEN ScanFail
    ELSE IF s[i] # "\\" THEN ScanChars(s, i + 1, Append(chars, s[i]))
    ELSE IF i + 1 > Len(s) THEN ScanFail
    ELSE IF s[i + 1] \in {"\"", "\\", "/", "b", "f", "n", "r", "t"}
         THEN ScanChars(s, i + 2, Append(chars, Unescape(s[i + 1])))
    ELSE IF /\ s[i + 1] = "u"
            /\ i + 5 <= Len(s)
            /\ \A j \in (i + 2)..(i + 5) : s[j] \in {"0", "1", "2", "3", "4", "5", "6", "7", "8", "9",
                                                   "a", "b", "c", "d", "e", "f",
                                                   "A", "B", "C", "D", "E", "F"}
         THEN ScanChars(s, i + 6,
                Append(chars, "\\u" \o s[i + 2] \o s[i + 3] \o s[i + 4] \o s[i + 5]))
    ELSE ScanFail

\* py_scanstring: s[i] is the opening quote
ScanString(s, i) == ScanChars(s, i + 1, <<>>)

\* first index at or after i that is not a digit
RECURSIVE DigitsEnd(_, _)
DigitsEnd(s, i) ==
    IF i <= Len(s) /\ s[i] = "1" THEN DigitsEnd(s, i + 1) ELSE i

\* int() of a run of n digits `1`
RECURSIVE Ones(_)
Ones(n) == IF n = 0 THEN 0 ELSE 10 * Ones(n - 1) + 1

\* NUMBER_RE match at i (the alphabet has the digit 1 only)
ScanNumber(s, i) ==
    LET j == DigitsEnd(s, i)
    IN  [ok |-> TRUE, val |-> [num |-> Ones(j - i)], end |-> j]

\* dict(pairs): a key met again keeps its place and takes the later value
SetMember(members, key, value) ==
    IF \E n \in 1..Len(members) : members[n].k = key
    THEN [n \in 1..Len(members) |->
            IF members[n].k = key THEN [k |-> key, v |-> value] ELSE members[n]]
    ELSE Append(members, [k |-> key, v |-> value])

\* scan_once: one JSON value starting at index i
\* ScanMembers: the loop of JSONObject, s[i] being the opening quote of a key
RECURSIVE ScanOnce(_, _), ScanMembers(_, _, _)
ScanMembers(s, i, members) ==
    LET key == ScanString(s, i)
    IN  IF ~key.ok THEN ScanFail
        ELSE
            LET colon == SkipWhitespace(s, key.end)
            IN  IF colon > Len(s) \/ s[colon] # ":" THEN ScanFail
                ELSE
                    LET value == ScanOnce(s, SkipWhitespace(s, colon + 1))
                    IN  IF ~value.ok THEN ScanFail
                        ELSE
                            LET next == SkipWhitespace(s, value.end)
                                pairs == SetMember(members, key.val.str, value.val)
                            IN  IF next > Len(s) THEN ScanFail
                                ELSE IF s[next] = "}"
                                THEN [ok |-> TRUE, val |-> [obj |-> pairs], end |-> next + 1]
                                ELSE IF s[next] # "," THEN ScanFail
                                ELSE
                                    LET quote == SkipWhitespace(s, next + 1)
                                    IN  IF quote > Len(s) \/ s[quote] # "\"" THEN ScanFail
                                        ELSE ScanMembers(s, quote, pairs)

ScanOnce(s, i) ==
    IF i > Len(s) THEN ScanFail
    ELSE IF s[i] = "\"" THEN ScanString(s, i)
    ELSE IF s[i] = "1" THEN ScanNumber(s, i)
    ELSE IF s[i] = "{" THEN
        \* JSONObject
        LET first == SkipWhitespace(s, i + 1)
        IN  IF first > Len(s) THEN ScanFail
            ELSE IF s[first] = "}" THEN [ok |-> TRUE, val |-> [obj |-> <<>>], end |-> first + 1]
            ELSE IF s[first] # "\"" THEN ScanFail
            ELSE ScanMembers(s, first, <<>>)
    ELSE ScanFail

\* json.loads: [ok |-> TRUE, val |-> v], or [ok |-> FALSE] for JSONDecodeError
JsonLoads(s) ==
    LET r == ScanOnce(s, SkipWhitespace(s, 1))
    IN  IF r.ok /\ SkipWhitespace(s, r.end) = Len(s) + 1
        THEN [ok |-> TRUE, val |-> r.val] ELSE [ok |-> FALSE]

(***************************************************************************)
(* Domain entities (domain/entities/tool.py, events.py) and the provider   *)
(* port's low-level events (domain/ports/llm_provider.py).                 *)
(***************************************************************************)
LLMTextDelta(content) == [type |-> "LLMTextDelta", content |-> content]

LLMToolCallDelta(index, id, name, arguments_chunk) ==
    [type |-> "LLMToolCallDelta", index |-> index, id |-> id, name |-> name,
     arguments_chunk |-> arguments_chunk]

LLMFinished(finish_reason, prompt_tokens, completion_tokens) ==
    [type |-> "LLMFinished", finish_reason |-> finish_reason,
     prompt_tokens |-> prompt_tokens, completion_tokens |-> completion_tokens]

TextDelta(content) == [type |-> "TextDelta", content |-> content]

ToolCallStarted(call_id, tool_name) ==
    [type |-> "ToolCallStarted", call_id |-> call_id, tool_name |-> tool_name]

ToolCallArgumentChunk(call_id, arguments_chunk) ==
    [type |-> "ToolCallArgumentChunk", call_id |-> call_id,
     arguments_chunk |-> arguments_chunk]

ToolCallCompleted(tool_call) == [type |-> "ToolCallCompleted", tool_call |-> tool_call]

ToolResultAvailable(tool_result) ==
    [type |-> "ToolResultAvailable", tool_result |-> tool_result]

UsageStats(prompt_tokens, completion_tokens, total_tokens) ==
    [prompt_tokens |-> prompt_tokens, completion_tokens |-> completion_tokens,
     total_tokens |-> total_tokens]

CompletionFinished(finish_reason, usage) ==
    [type |-> "CompletionFinished", finish_reason |-> finish_reason, usage |-> usage]

\* ToolCallValid that checks the id only
ToolCallValidIdOnly(id, name) == Truthy(id)

\* ToolCall(id, name, arguments): __post_init__ rejects an empty id or name
ToolCallValid(id, name) == Truthy(id) /\ Truthy(name)
ToolCall(id, name, arguments) == [id |-> id, name |-> name, arguments |-> arguments]

\* ToolResult(call_id, name, result)
ToolResult(call_id, name, result) == [call_id |-> call_id, name |-> name, result |-> result]
\* ToolResult.__post_init__ rejects an empty call_id
ToolResultValid(call_id) == Truthy(call_id)

(***************************************************************************)
(* Tools and the ToolExecutor (infrastructure/tools/tool_executor.py).     *)
(* A tool is [name, raises]: both tools of the model have the input schema *)
(* `a: int` (the tests' `value: int`, the key spelled with the one letter  *)
(* of JsonChars); mock_tool returns {"result": a * 2}, failing_tool raises.*)
(***************************************************************************)
MockTool == [name |-> "mock_tool", raises |-> FALSE]
FailingTool == [name |-> "failing_tool", raises |-> TRUE]

\* ToolExecutor._tools as the list of its values, in insertion order
RegisteredNames(reg) == {reg[i].name : i \in 1..Len(reg)}
ToolNamed(reg, name) == reg[CHOOSE i \in 1..Len(reg) : reg[i].name = name]

\* ToolExecutor.get_registered_tools
GetRegisteredTools(reg) == reg

\* key in mapping, mapping[key]
HasMember(val, key) ==
    "obj" \in DOMAIN val /\ \E n \in 1..Len(val.obj) : val.obj[n].k = key
Member(val, key) == val.obj[CHOOSE n \in 1..Len(val.obj) : val.obj[n].k = key].v

\* tool.input_schema(**arguments): arguments must be a mapping with an
\* int-coercible member `a` (an int, or a str of digits: lax coercion);
\* the schema ignores the other members
SchemaAccepts(arguments) ==
    /\ HasMember(arguments, <<"a">>)
    /\ LET v == Member(arguments, <<"a">>)
       IN  \/ "num" \in DOMAIN v
           \/ /\ "str" \in DOMAIN v
              /\ v.str # <<>>
              /\ \A i \in 1..Len(v.str) : v.str[i] = "1"

\* MockTool.execute, on the int the schema made of member `a`
MockResult(arguments) ==
    LET v == Member(arguments, <<"a">>)
    IN  [result |-> 2 * (IF "num" \in DOMAIN v THEN v.num ELSE Ones(Len(v.str)))]

\* the exceptions of ToolExecutor.execute, and none
NoException == [type |-> "none"]
ToolNotFoundError(name) == [type |-> "ToolNotFoundError", message |-> name]
ToolExecutionError(tool_name, original_error) ==
    [type |-> "ToolExecutionError", tool_name |-> tool_name,
     original_error |-> original_error]

\* ExecuteEntry with the lookup inside the try: an absent name is wrapped
ExecuteEntryWrapped(reg, tool_call) ==
    IF tool_call.name \notin RegisteredNames(reg) THEN "ToolExecutionError"
    ELSE IF ~SchemaAccepts(tool_call.arguments) THEN "ToolExecutionError"
    ELSE "await"

\* ToolExecutor.execute up to the await of tool.execute:
\* "ToolNotFoundError", "ToolExecutionError" (validation), or "await"
ExecuteEntry(reg, tool_call) ==
    IF tool_call.name \notin RegisteredNames(reg) THEN "ToolNotFoundError"
    ELSE IF ~SchemaAccepts(tool_call.arguments) THEN "ToolExecutionError"
    ELSE "await"

\* the exception of an ExecuteEntry that is not "await"; the original error
\* is what tool.input_schema(**arguments) raises: `**` on what is not a
\* mapping, or the schema's validation
ExecuteEntryException(reg, tool_call) ==
    IF tool_call.name \notin RegisteredNames(reg)
    THEN ToolNotFoundError(tool_call.name)
    ELSE ToolExecutionError(tool_call.name,
                            IF "obj" \notin DOMAIN tool_call.arguments
                            THEN "TypeError"
                            ELSE "ValidationError")

\* ExecuteResult with the tool's name where the call's id belongs
ExecuteResultNameAsId(tool_call) ==
    ToolResult(tool_call.name, tool_call.name, MockResult(tool_call.arguments))

\* the ToolResult ToolExecutor.execute returns once tool.execute has returned
ExecuteResult(tool_call) ==
    ToolResult(tool_call.id, tool_call.name, MockResult(tool_call.arguments))

(***************************************************************************)
(* The wire (infrastructure/protocol/vercel_stream.py).  A protocol string *)
(* is a sequence of one-character strings.  Chars gives the characters of  *)
(* the ids, names, texts and finish reasons of the model.                  *)
(***************************************************************************)
Chars(s) ==
    CASE s = "" -> <<>>
      [] s = "Hello" -> <<"H", "e", "l", "l", "o">>
      [] s = " world" -> <<" ", "w", "o", "r", "l", "d">>
      [] s = "call_1" -> <<"c", "a", "l", "l", "_", "1">>
      [] s = "call_2" -> <<"c", "a", "l", "l", "_", "2">>
      [] s = "mock_tool" -> <<"m", "o", "c", "k", "_", "t", "o", "o", "l">>
      [] s = "failing_tool" -> <<"f", "a", "i", "l", "i", "n", "g", "_", "t", "o", "o", "l">>
      [] s = "stop" -> <<"s", "t", "o", "p">>
      [] s = "tool_calls" -> <<"t", "o", "o", "l", "_", "c", "a", "l", "l", "s">>
      [] s = "length" -> <<"l", "e", "n", "g", "t", "h">>
      [] s = "content_filter" -> <<"c", "o", "n", "t", "e", "n", "t", "_", "f", "i", "l", "t", "e", "r">>
      [] s = "toolCallId" -> <<"t", "o", "o", "l", "C", "a", "l", "l", "I", "d">>
      [] s = "toolName" -> <<"t", "o", "o", "l", "N", "a", "m", "e">>
      [] s = "args" -> <<"a", "r", "g", "s">>
      [] s = "a\"b" -> <<"a", "\"", "b">>
      [] s = "a\\" -> <<"a", "\\">>
      [] s = "\\\\" -> <<"\\", "\\">>

\* str(n) of a non-negative int
Digit(d) == <<"0", "1", "2", "3", "4", "5", "6", "7", "8", "9">>[d + 1]
RECURSIVE IntChars(_)
IntChars(n) == IF n < 10 THEN <<Digit(n)>> ELSE IntChars(n \div 10) \o <<Digit(n % 10)>>

\* json.dumps of a str: quotes around the escaped characters
EscapeChar(c) ==
    CASE c = "\"" -> <<"\\", "\"">>
      [] c = "\\" -> <<"\\", "\\">>
      [] c = "\n" -> <<"\\", "n">>
      [] c = "\t" -> <<"\\", "t">>
      [] c = "\r" -> <<"\\", "r">>
      [] c = "\f" -> <<"\\", "f">>
      [] OTHER -> <<c>>

RECURSIVE Escape(_)
Escape(chars) ==
    IF chars = <<>> THEN <<>> ELSE EscapeChar(Head(chars)) \o Escape(Tail(chars))

Quoted(chars) == <<"\"">> \o Escape(chars) \o <<"\"">>

\* json.dumps of a parsed value, with the default separators `, ` and `: `
RECURSIVE JsonDumps(_), DumpMembers(_, _)
JsonDumps(v) ==
    IF "num" \in DOMAIN v THEN IntChars(v.num)
    ELSE IF "str" \in DOMAIN v THEN Quoted(v.str)
    ELSE <<"{">> \o DumpMembers(v.obj, 1) \o <<"}">>

DumpMembers(members, n) ==
    IF n > Len(members) THEN <<>>
    ELSE (IF n > 1 THEN <<",", " ">> ELSE <<>>)
         \o Quoted(members[n].k) \o <<":", " ">> \o JsonDumps(members[n].v)
         \o DumpMembers(members, n + 1)

\* json.dumps of the result of MockTool.execute, {"result": n}
JsonDumpsResult(result) ==
    <<"{">> \o Quoted(<<"r", "e", "s", "u", "l", "t">>) \o <<":", " ">>
        \o IntChars(result.result) \o <<"}">>

\* the literal parts of the f-strings of format_event
FormatLiterals ==
    [TextTag |->
        <<"0", ":">>,
     CompletedOpen |->
        <<"9", ":", "{", "\"", "t", "o", "o", "l", "C", "a", "l", "l",
        "I", "d", "\"", ":", "\"">>,
     ResultOpen |->
        <<"a", ":", "{", "\"", "t", "o", "o", "l", "C", "a", "l", "l",
        "I", "d", "\"", ":", "\"">>,
     ToolNameKey |->
        <<"\"", ",", "\"", "t", "o", "o", "l", "N", "a", "m", "e", "\"",
        ":", "\"">>,
     ArgsKey |->
        <<"\"", ",", "\"", "a", "r", "g", "s", "\"", ":">>,
     ResultKey |->
        <<"\"", ",", "\"", "r", "e", "s", "u", "l", "t", "\"", ":">>,
     FinishedOpen |->
        <<"e", ":", "{", "\"", "f", "i", "n", "i", "s", "h", "R", "e",
        "a", "s", "o", "n", "\"", ":", "\"">>,
     PromptTokensKey |->
        <<"\"", ",", "\"", "u", "s", "a", "g", "e", "\"", ":", "{", "\"",
        "p", "r", "o", "m", "p", "t", "T", "o", "k", "e", "n", "s", "\"",
        ":">>,
     CompletionTokensKey |->
        <<",", "\"", "c", "o", "m", "p", "l", "e", "t", "i", "o", "n",
        "T", "o", "k", "e", "n", "s", "\"", ":">>,
     FinishedClose |->
        <<"}", ",", "\"", "i", "s", "C", "o", "n", "t", "i", "n", "u",
        "e", "d", "\"", ":", "f", "a", "l", "s", "e", "}", "\n">>,
     ObjectClose |->
        <<"}", "\n">>]

\* FormatEvent with a line for ToolCallStarted too
FormatEventWithStarted(e) ==
    LET L == FormatLiterals IN
    IF e.type = "ToolCallStarted"
    THEN <<"b", ":">> \o Quoted(Chars(e.call_id)) \o <<"\n">>
    ELSE IF e.type = "TextDelta"
    THEN L.TextTag \o Quoted(Chars(e.content)) \o <<"\n">>
    ELSE IF e.type = "ToolCallCompleted"
    THEN L.CompletedOpen \o Chars(e.tool_call.id) \o L.ToolNameKey \o Chars(e.tool_call.name)
            \o L.ArgsKey \o JsonDumps(e.tool_call.arguments) \o L.ObjectClose
    ELSE IF e.type = "ToolResultAvailable"
    THEN L.ResultOpen \o Chars(e.tool_result.call_id) \o L.ToolNameKey
            \o Chars(e.tool_result.name) \o L.ResultKey
            \o JsonDumpsResult(e.tool_result.result) \o L.ObjectClose
    ELSE IF e.type = "CompletionFinished"
    THEN L.FinishedOpen \o Chars(e.finish_reason) \o L.PromptTokensKey
            \o IntChars(e.usage.prompt_tokens) \o L.CompletionTokensKey
            \o IntChars(e.usage.completion_tokens) \o L.FinishedClose
    ELSE <<>>

\* VercelStreamProtocolAdapter.format_event: ids, names and finish reasons
\* are interpolated as they are; content, arguments and result go through
\* json.dumps
FormatEvent(e) ==
    LET L == FormatLiterals IN
    IF e.type = "TextDelta"
    THEN L.TextTag \o Quoted(Chars(e.content)) \o <<"\n">>
    ELSE IF e.type = "ToolCallCompleted"
    THEN L.CompletedOpen \o Chars(e.tool_call.id) \o L.ToolNameKey \o Chars(e.tool_call.name)
            \o L.ArgsKey \o JsonDumps(e.tool_call.arguments) \o L.ObjectClose
    ELSE IF e.type = "ToolResultAvailable"
    THEN L.ResultOpen \o Chars(e.tool_result.call_id) \o L.ToolNameKey
            \o Chars(e.tool_result.name) \o L.ResultKey
            \o JsonDumpsResult(e.tool_result.result) \o L.ObjectClose
    ELSE IF e.type = "CompletionFinished"
    THEN L.FinishedOpen \o Chars(e.finish_reason) \o L.PromptTokensKey
            \o IntChars(e.usage.prompt_tokens) \o L.CompletionTokensKey
            \o IntChars(e.usage.completion_tokens) \o L.FinishedClose
    ELSE <<>>

(***************************************************************************)
(* The accumulator tool_calls_in_progress: a dict index -> {id, name,      *)
(* arguments}, kept as the list of its entries in insertion order.         *)
(***************************************************************************)
AccHas(acc, index) == \E i \in 1..Len(acc) : acc[i].index = index

\* AccAt that takes the entry recorded last, whatever its position
AccAtLast(acc, index) == Len(acc)

\* tool_calls_in_progress[index]
AccAt(acc, index) == CHOOSE i \in 1..Len(acc) : acc[i].index = index

\* AccStart that keeps the entries in position order
AccStartByIndex(acc, e) ==
    LET entry == [index |-> e.index, id |-> e.id, name |-> OrEmpty(e.name),
                  arguments |-> <<>>]
        before == SelectSeq(acc, LAMBDA x : x.index < e.index)
        after == SelectSeq(acc, LAMBDA x : x.index > e.index)
    IN  before \o <<entry>> \o after

\* AccStart that, for a position started before, takes the new id and name
\* and keeps the argument text accumulated so far
AccStartKeepingText(acc, e) ==
    IF AccHas(acc, e.index)
    THEN [acc EXCEPT ![AccAt(acc, e.index)].id = e.id,
                     ![AccAt(acc, e.index)].name = OrEmpty(e.name)]
    ELSE Append(acc, [index |-> e.index, id |-> e.id, name |-> OrEmpty(e.name),
                      arguments |-> <<>>])

\* tool_calls_in_progress[event.index] = {'id', 'name', 'arguments': ''}
AccStart(acc, e) ==
    LET entry == [index |-> e.index, id |-> e.id, name |-> OrEmpty(e.name),
                  arguments |-> <<>>]
    IN  IF AccHas(acc, e.index)
        THEN [acc EXCEPT ![AccAt(acc, e.index)] = entry]
        ELSE Append(acc, entry)

\* AccAppend with `=` for `+=`
AccAppendOverwrite(acc, e) ==
    [acc EXCEPT ![AccAt(acc, e.index)].arguments = e.arguments_chunk]

\* tool_calls_in_progress[event.index]['arguments'] += event.arguments_chunk
AccAppend(acc, e) ==
    [acc EXCEPT ![AccAt(acc, e.index)].arguments = @ \o e.arguments_chunk]

\* FinishedEvent whose total leaves out the completion tokens
FinishedEventPromptOnly(e) ==
    CompletionFinished(e.finish_reason,
        UsageStats(e.prompt_tokens, e.completion_tokens, e.prompt_tokens))

\* the usage of the CompletionFinished built from the terminal event
FinishedEvent(e) ==
    CompletionFinished(e.finish_reason,
        UsageStats(e.prompt_tokens, e.completion_tokens,
                   e.prompt_tokens + e.completion_tokens))

(***************************************************************************)
(* Inputs: the message history, the registry the executor was set up with, *)
(* and the low-level events the provider stream may deliver.               *)
(***************************************************************************)
Positions == 0..MaxIndex
TextContents == {"Hello", " world"}

\* argument text fragments: `{"a":`, `1}`, `{"a":1}` and `1`
ChunkOpen == <<"{", "\"", "a", "\"", ":">>
ChunkClose == <<"1", "}">>
ChunkWhole == <<"{", "\"", "a", "\"", ":", "1", "}">>
ChunkDigit == <<"1">>

\* the start of test_execute_with_empty_tool_name: an id, an empty name and
\* no argument text
EmptyNameStart == LLMToolCallDelta(0, "call_1", "", NoneChunk)

\* fragments with a non-null id (a start), with or without argument text;
\* an empty id and an absent or empty name come at position 0 only
StartEvents ==
    {LLMToolCallDelta(p, "call_1", "mock_tool", c) :
        p \in Positions, c \in {NoneChunk, ChunkWhole}}
    \cup {LLMToolCallDelta(p, "call_2", name, ChunkWhole) :
        p \in Positions, name \in {"mock_tool", "failing_tool"}}
    \cup {LLMToolCallDelta(0, "", "mock_tool", ChunkWhole),
          LLMToolCallDelta(0, "call_1", None, ChunkWhole),
          EmptyNameStart}

\* fragments with a null id (a continuation)
ContinuationEvents ==
    {LLMToolCallDelta(p, None, None, c) :
        p \in Positions, c \in {ChunkOpen, ChunkClose, ChunkWhole, ChunkDigit}}

ProviderErrors == {"LLMProviderError", "RateLimitError"}


(***************************************************************************)
(* State.                                                                  *)
(***************************************************************************)
VARIABLES
    registry,       \* ToolExecutor._tools
    messages,       \* the argument of execute
    pc,             \* where the generator execute() is suspended
    tools,          \* local `tools`
    acc,            \* local `tool_calls_in_progress`
    event,          \* local `event`: the low-level event being handled
    k,              \* position of the terminal branch's loop in acc
    tool_call,      \* local `tool_call`
    output,         \* the events yielded so far
    error,          \* the exception that left the generator, or "none"
    delivered,      \* the low-level events read from the provider stream
    calls,          \* the calls made on the collaborators, in order
    parked,         \* the frame of a second call of execute on the same
                    \* use-case instance, suspended while this one runs
    response,       \* the StreamingResponse of handle_chat: its status, the
                    \* number of events stream_events has taken from execute
                    \* and the protocol strings it has yielded; NoResponse
                    \* when execute is iterated without handle_chat
    raised,         \* the exception that last left ToolExecutor.execute
    stream          \* the upstream stream OpenAILLMAdapter.stream_completion
                    \* has read from the OpenAI stream

vars == <<registry, messages, pc, tools, acc, event, k, tool_call, output, error,
          delivered, calls, parked, response, raised,
          stream>>

NoEvent == [type |-> "none"]
NoToolCall == ToolCall(None, None, [num |-> 0])

\* the frame of a call execute(msgs) that has not been iterated yet: its
\* argument, its position, its locals and what has been observed of it
NewFrame(msgs) ==
    [messages |-> msgs, pc |-> "init", tools |-> <<>>, acc |-> <<>>, event |-> NoEvent,
     k |-> 0, tool_call |-> NoToolCall, output |-> <<>>, error |-> "none",
     delivered |-> <<>>, calls |-> <<>>]

\* the status of a StreamingResponse built without a status_code
DefaultStatusCode == 200

\* chat.py line 43: StreamingResponse(stream_events(), ...), nothing taken
\* from the generator yet
StreamingResponse == [status |-> DefaultStatusCode, consumed |-> 0, sent |-> <<>>]

\* execute iterated directly, as the tests do: no StreamingResponse around it
NoResponse == [type |-> "none"]

\* StreamEvents without the test `if protocol_string`
StreamEventsUnfiltered(resp, out) ==
    IF resp.consumed = Len(out) THEN resp
    ELSE LET protocol_string == FormatEvent(out[resp.consumed + 1])
         IN  [resp EXCEPT !.consumed = @ + 1,
                          !.sent = Append(@, protocol_string)]

\* chat.py lines 36-40: one turn of the loop of stream_events, run in the
\* same resumption as the yield of execute that left the events out: the
\* event is taken, formatted, and its protocol string yielded when not empty
StreamEvents(resp, out) ==
    IF resp.consumed = Len(out) THEN resp
    ELSE LET protocol_string == FormatEvent(out[resp.consumed + 1])
         IN  [resp EXCEPT
                !.consumed = @ + 1,
                !.sent = IF protocol_string # <<>> THEN Append(@, protocol_string) ELSE @]

\* chat.py line 36: what iterates execute after a step that left the events
\* out: stream_events when handle_chat has built a StreamingResponse
Consumer(resp, out) ==
    IF resp = NoResponse THEN resp ELSE StreamEvents(resp, out)

Init ==
    /\ registry \in {<<>>, <<MockTool, FailingTool>>}
    /\ messages \in {<<>>, <<[role |-> "user", content |-> "Hello"]>>}
    /\ pc = "init"
    /\ tools = <<>>
    /\ acc = <<>>
    /\ event = NoEvent
    /\ k = 0
    /\ tool_call = NoToolCall
    /\ output = <<>>
    /\ error = "none"
    /\ delivered = <<>>
    /\ calls = <<>>
    /\ parked = NewFrame(<<>>)
    /\ response = NoResponse
    /\ raised = NoException
    /\ stream = <<>>

\* StartCalls with the provider requested without the queried tools
StartCallsNoTools(msgs, reg) ==
    << [op |-> "get_registered_tools", read |-> 0],
       [op |-> "stream_completion", read |-> 0, messages |-> msgs, tools |-> <<>>] >>

\* the collaborator calls of lines 46 and 52, in the order the code makes them
StartCalls(msgs, reg) ==
    << [op |-> "get_registered_tools", read |-> 0],
       [op |-> "stream_completion", read |-> 0, messages |-> msgs,
        tools |-> GetRegisteredTools(reg)] >>

\* first __anext__: the body runs up to the await of the first provider event
Start ==
    /\ pc = "init"
    /\ tools' = GetRegisteredTools(registry)
    /\ calls' = calls \o StartCalls(messages, registry)
    /\ pc' = "await_event"
    /\ UNCHANGED <<stream, raised, response, parked, registry, messages, acc, event, k, tool_call, output, error, delivered>>

\* the generator is left by an exception
Raise(exc) ==
    /\ pc' = "failed"
    /\ error' = exc

\* YieldText that skips a fragment equal to the one before it
YieldTextDeduplicated(out, e) ==
    IF out # <<>> /\ out[Len(out)] = TextDelta(e.content)
    THEN out
    ELSE Append(out, TextDelta(e.content))

\* lines 54-56: the output after the yield for a text fragment
YieldText(out, e) == Append(out, TextDelta(e.content))

\* the provider stream delivers LLMTextDelta e: yield TextDelta
DeliverText(e) ==
    /\ pc = "await_event"
    /\ delivered' = Append(delivered, e)
    /\ event' = e
    /\ output' = YieldText(output, e)
    /\ UNCHANGED <<stream, raised, parked, registry, messages, pc, tools, acc, k, tool_call, error, calls>>
    /\ response' = Consumer(response, output')

\* HandleChunk that yields the chunk of a position never started, with no id
HandleChunkUnstarted(a, e) ==
    IF TruthyChunk(e.arguments_chunk)
    THEN /\ acc' = IF AccHas(a, e.index) THEN AccAppend(a, e) ELSE a
         /\ output' = Append(output,
               ToolCallArgumentChunk(
                   IF AccHas(a, e.index) THEN a[AccAt(a, e.index)].id ELSE "",
                   e.arguments_chunk))
         /\ pc' = "await_event"
         /\ error' = error
    ELSE /\ acc' = a
         /\ output' = output
         /\ pc' = "await_event"
         /\ error' = error

\* lines 72-78: the argument chunk of the current LLMToolCallDelta
HandleChunk(a, e) ==
    IF TruthyChunk(e.arguments_chunk)
    THEN IF AccHas(a, e.index)
         THEN /\ acc' = AccAppend(a, e)
              /\ output' = Append(output,
                    ToolCallArgumentChunk(AccAppend(a, e)[AccAt(a, e.index)].id,
                                          e.arguments_chunk))
              /\ pc' = "await_event"
              /\ error' = error
         ELSE /\ Raise("KeyError")
              /\ acc' = a
              /\ output' = output
    ELSE /\ acc' = a
         /\ output' = output
         /\ pc' = "await_event"
         /\ error' = error

\* the provider stream delivers an LLMToolCallDelta e with a non-null id:
\* record the start, yield ToolCallStarted
DeliverStart(e) ==
    /\ pc = "await_event"
    /\ delivered' = Append(delivered, e)
    /\ event' = e
    /\ acc' = AccStart(acc, e)
    /\ output' = Append(output, ToolCallStarted(e.id, OrEmpty(e.name)))
    /\ pc' = "after_started"
    /\ UNCHANGED <<stream, raised, parked, registry, messages, tools, k, tool_call, error, calls>>
    /\ response' = Consumer(response, output')

\* ResumeAfterStarted for an `elif event.arguments_chunk` at line 72: the
\* chunk of a fragment that carried an id is not looked at
ResumeAfterStartedElif ==
    /\ pc = "after_started"
    /\ pc' = "await_event"
    /\ UNCHANGED <<stream, raised, response, parked, registry, messages, tools, acc, event, k,
                   tool_call, output, error, delivered, calls>>

\* resumed after the yield of ToolCallStarted: the chunk of the same fragment
ResumeAfterStarted ==
    /\ pc = "after_started"
    /\ HandleChunk(acc, event)
    /\ UNCHANGED <<stream, raised, parked, registry, messages, tools, event, k, tool_call, delivered, calls>>
    /\ response' = Consumer(response, output')

\* DeliverContinuation that completes the call as soon as the text received
\* for it parses
DeliverContinuationEager(e) ==
    /\ pc = "await_event"
    /\ delivered' = Append(delivered, e)
    /\ event' = e
    /\ IF TruthyChunk(e.arguments_chunk) /\ AccHas(acc, e.index)
       THEN LET entry == AccAppend(acc, e)[AccAt(acc, e.index)]
                parsed == JsonLoads(entry.arguments)
            IN  /\ acc' = AccAppend(acc, e)
                /\ output' = output
                      \o <<ToolCallArgumentChunk(entry.id, e.arguments_chunk)>>
                      \o (IF parsed.ok /\ ToolCallValid(entry.id, entry.name)
                          THEN <<ToolCallCompleted(ToolCall(entry.id, entry.name, parsed.val))>>
                          ELSE <<>>)
                /\ pc' = "await_event"
                /\ error' = error
       ELSE HandleChunk(acc, e)
    /\ UNCHANGED <<stream, raised, parked, registry, messages, tools, k, tool_call, calls>>
    /\ response' = Consumer(response, output')

\* the provider stream delivers an LLMToolCallDelta e with a null id
DeliverContinuation(e) ==
    /\ pc = "await_event"
    /\ delivered' = Append(delivered, e)
    /\ event' = e
    /\ HandleChunk(acc, e)
    /\ UNCHANGED <<stream, raised, parked, registry, messages, tools, k, tool_call, calls>>
    /\ response' = Consumer(response, output')

\* MakeToolCall that falls back to {} when the text does not parse
MakeToolCallLenient(tool_data) ==
    LET parsed == JsonLoads(tool_data.arguments)
        arguments == IF parsed.ok THEN parsed.val ELSE [obj |-> <<>>]
    IN  IF ~ToolCallValid(tool_data.id, tool_data.name) THEN [exc |-> "ValueError"]
        ELSE [exc |-> "none",
              tool_call |-> ToolCall(tool_data.id, tool_data.name, arguments)]

\* lines 85-89: json.loads of the accumulated text, then ToolCall(...)
MakeToolCall(tool_data) ==
    LET parsed == JsonLoads(tool_data.arguments)
    IN  IF ~parsed.ok THEN [exc |-> "JSONDecodeError"]
        ELSE IF ~ToolCallValid(tool_data.id, tool_data.name) THEN [exc |-> "ValueError"]
        ELSE [exc |-> "none",
              tool_call |-> ToolCall(tool_data.id, tool_data.name, parsed.val)]

\* NextEntry that skips an entry
NextEntrySkipping(n) == n + 2

\* the entry the loop of line 83 visits after the n-th one
NextEntry(n) == n + 1

\* LoopAt that parses the text of every pending entry before it completes
\* the first one
LoopAtParsingAhead(n, e) ==
    IF n > Len(acc)
    THEN /\ output' = Append(output, FinishedEvent(e))
         /\ pc' = "await_event"
         /\ k' = 0
         /\ UNCHANGED <<tool_call, error>>
    ELSE IF \E j \in n..Len(acc) : MakeToolCall(acc[j]).exc # "none"
         THEN /\ Raise(MakeToolCall(acc[CHOOSE j \in n..Len(acc) :
                                          MakeToolCall(acc[j]).exc # "none"]).exc)
              /\ UNCHANGED <<output, k, tool_call>>
         ELSE /\ output' = Append(output, ToolCallCompleted(MakeToolCall(acc[n]).tool_call))
              /\ tool_call' = MakeToolCall(acc[n]).tool_call
              /\ k' = n
              /\ pc' = "after_completed"
              /\ UNCHANGED error

\* LoopAt for a line 82 that also asks for the finish reason tool_calls
LoopAtToolCallsOnly(n, e) ==
    IF n > Len(acc) \/ e.finish_reason # "tool_calls"
    THEN /\ output' = Append(output, FinishedEvent(e))
         /\ pc' = "await_event"
         /\ k' = 0
         /\ UNCHANGED <<tool_call, error>>
    ELSE LET made == MakeToolCall(acc[n])
         IN  IF made.exc # "none"
             THEN /\ Raise(made.exc)
                  /\ UNCHANGED <<output, k, tool_call>>
             ELSE /\ output' = Append(output, ToolCallCompleted(made.tool_call))
                  /\ tool_call' = made.tool_call
                  /\ k' = n
                  /\ pc' = "after_completed"
                  /\ UNCHANGED error

\* the loop of line 83 arrives at entry n of the accumulator (or at its end)
\* while handling the terminal event e
LoopAt(n, e) ==
    IF n > Len(acc)
    THEN /\ output' = Append(output, FinishedEvent(e))
         /\ pc' = "await_event"
         /\ k' = 0
         /\ UNCHANGED <<tool_call, error>>
    ELSE LET made == MakeToolCall(acc[n])
         IN  IF made.exc # "none"
             THEN /\ Raise(made.exc)
                  /\ UNCHANGED <<output, k, tool_call>>
             ELSE /\ output' = Append(output, ToolCallCompleted(made.tool_call))
                  /\ tool_call' = made.tool_call
                  /\ k' = n
                  /\ pc' = "after_completed"
                  /\ UNCHANGED error

\* the provider stream delivers the LLMFinished e: the terminal branch up to
\* its first yield
DeliverFinished(e) ==
    /\ pc = "await_event"
    /\ delivered' = Append(delivered, e)
    /\ event' = e
    /\ LoopAt(1, e)
    /\ UNCHANGED <<stream, raised, parked, registry, messages, tools, acc, calls>>
    /\ response' = Consumer(response, output')

\* ExecuteBegin that swallows the executor's failure and goes on with the loop
ExecuteBeginSwallowing ==
    /\ pc = "after_completed"
    /\ calls' = Append(calls, [op |-> "execute", read |-> Len(delivered),
                               at |-> Len(output), tool_call |-> tool_call])
    /\ pc' = IF ExecuteEntry(registry, tool_call) = "await" THEN "executing"
             ELSE "after_result"
    /\ UNCHANGED <<stream, raised, response, parked, registry, messages, tools, acc, event, k, tool_call, output, error,
                   delivered>>

\* resumed after the yield of ToolCallCompleted: ToolExecutor.execute is called
\* and runs until it raises or awaits tool.execute
ExecuteBegin ==
    /\ pc = "after_completed"
    /\ calls' = Append(calls, [op |-> "execute", read |-> Len(delivered),
                               at |-> Len(output), tool_call |-> tool_call])
    /\ LET entry == ExecuteEntry(registry, tool_call)
       IN  IF entry = "await"
           THEN pc' = "executing" /\ UNCHANGED <<error, raised>>
           ELSE Raise(entry) /\ raised' = ExecuteEntryException(registry, tool_call)
    /\ UNCHANGED <<stream, response, parked, registry, messages, tools, acc, event, k, tool_call, output, delivered>>

\* tool.execute returns: execute returns the ToolResult, which is yielded
ToolReturns ==
    /\ pc = "executing"
    /\ ~ToolNamed(registry, tool_call.name).raises
    /\ ToolResultValid(tool_call.id)
    /\ output' = Append(output, ToolResultAvailable(ExecuteResult(tool_call)))
    /\ pc' = "after_result"
    /\ UNCHANGED <<stream, raised, parked, registry, messages, tools, acc, event, k, tool_call, error, delivered, calls>>
    /\ response' = Consumer(response, output')

\* tool.execute raises, or the ToolResult built from its return value is
\* rejected, inside the try: execute wraps the error in ToolExecutionError
ToolRaises ==
    /\ pc = "executing"
    /\ ToolNamed(registry, tool_call.name).raises \/ ~ToolResultValid(tool_call.id)
    /\ Raise("ToolExecutionError")
    \* FailingTool.execute: raise ValueError("Tool failed");
    \* ToolResult.__post_init__: raise ValueError("ToolResult call_id cannot be empty")
    /\ raised' = ToolExecutionError(tool_call.name, "ValueError")
    /\ UNCHANGED <<stream, response, parked, registry, messages, tools, acc, event, k, tool_call, output, delivered, calls>>

\* resumed after the yield of ToolResultAvailable: next entry, or the
\* CompletionFinished of line 98
ResumeAfterResult ==
    /\ pc = "after_result"
    /\ LoopAt(NextEntry(k), event)
    /\ UNCHANGED <<stream, raised, parked, registry, messages, tools, acc, event, delivered, calls>>
    /\ response' = Consumer(response, output')

\* ProviderEnd that treats the end of the stream as a terminal event when
\* none was delivered: the pending tool calls are completed and a
\* CompletionFinished closes the sequence
ProviderEndFlushing ==
    /\ pc = "await_event"
    /\ IF \E i \in 1..Len(delivered) : delivered[i].type = "LLMFinished"
       THEN pc' = "done" /\ UNCHANGED <<output, k, tool_call, error>>
       ELSE LoopAt(1, LLMFinished("stop", 0, 0))
    /\ UNCHANGED <<stream, raised, parked, registry, messages, tools, acc, event,
                   delivered, calls>>
    /\ response' = Consumer(response, output')

\* the provider stream ends: the async for ends and the generator returns
ProviderEnd ==
    /\ pc = "await_event"
    /\ pc' = "done"
    /\ UNCHANGED <<stream, raised, response, parked, registry, messages, tools, acc, event, k, tool_call, output, error,
                   delivered, calls>>

\* ProviderFails that closes the sequence with a CompletionFinished of its own
\* before the failure leaves
ProviderFailsSynthetic ==
    \E exc \in ProviderErrors :
        /\ pc = "await_event"
        /\ Raise(exc)
        /\ output' = Append(output, CompletionFinished("error", UsageStats(0, 0, 0)))
        /\ UNCHANGED <<stream, raised, parked, registry, messages, tools, acc, event, k, tool_call,
                       delivered, calls>>
        /\ response' = Consumer(response, output')

\* the provider stream raises: the exception passes through execute
ProviderFails ==
    \E exc \in ProviderErrors :
        /\ pc = "await_event"
        /\ Raise(exc)
        /\ UNCHANGED <<stream, raised, response, parked, registry, messages, tools, acc, event, k, tool_call, output,
                       delivered, calls>>

(***************************************************************************)
(* Spec: any stream of at most MaxEvents events over the whole alphabet,   *)
(* ended or failed by the provider at any point.                           *)
(***************************************************************************)
ProviderText ==
    /\ Len(delivered) < MaxEvents
    /\ \E c \in TextContents : DeliverText(LLMTextDelta(c))

ProviderToolCallStart ==
    /\ Len(delivered) < MaxEvents
    /\ \E e \in StartEvents : DeliverStart(e)

ProviderToolCallContinuation ==
    /\ Len(delivered) < MaxEvents
    /\ \E e \in ContinuationEvents : DeliverContinuation(e)

ProviderFinished ==
    /\ Len(delivered) < MaxEvents
    /\ \E e \in {LLMFinished("stop", 10, 5), LLMFinished("tool_calls", 10, 5),
                 LLMFinished("length", 0, 1), LLMFinished("content_filter", 0, 0)} :
          DeliverFinished(e)

Next ==
    \/ Start
    \/ ProviderText
    \/ ProviderToolCallStart
    \/ ResumeAfterStarted
    \/ ProviderToolCallContinuation
    \/ ProviderFinished
    \/ ExecuteBegin
    \/ ToolReturns
    \/ ToolRaises
    \/ ResumeAfterResult
    \/ ProviderEnd
    \/ ProviderFails

Spec == Init /\ [][Next]_vars

(***************************************************************************)
(* SpecTools: longer streams of well-identified tool-call fragments, as    *)
(* the provider sends them: every start carries a fresh id, the name of    *)
(* the registered mock_tool and no argument text; the argument text comes  *)
(* in null-id fragments, for any position and in any order.                *)
(***************************************************************************)
InitTools ==
    /\ Init
    /\ registry = <<MockTool, FailingTool>>
    /\ messages # <<>>

\* the id of the next start: call_1, call_2, ...
FreshId(d) ==
    "call_" \o ToString(Len(SelectSeq(d, LAMBDA e :
        e.type = "LLMToolCallDelta" /\ e.id # None)) + 1)

ToolsStart ==
    /\ Len(delivered) < MaxToolEvents
    /\ \E p \in Positions :
            DeliverStart(LLMToolCallDelta(p, FreshId(delivered), "mock_tool", NoneChunk))

ToolsContinuation ==
    /\ Len(delivered) < MaxToolEvents
    /\ \E e \in ContinuationEvents : DeliverContinuation(e)

ToolsFinished ==
    /\ Len(delivered) < MaxToolEvents
    /\ DeliverFinished(LLMFinished("tool_calls", 10, 5))

NextTools ==
    \/ Start
    \/ ToolsStart
    \/ ResumeAfterStarted
    \/ ToolsContinuation
    \/ ToolsFinished
    \/ ExecuteBegin
    \/ ToolReturns
    \/ ResumeAfterResult
    \/ ProviderEnd

SpecTools == InitTools /\ [][NextTools]_vars

(***************************************************************************)
(* SpecConsumer: Spec with a consumer that may stop consuming.  The        *)
(* generator is then left suspended at the yield of the last event it      *)
(* produced and is closed there (aclose, or finalization of the abandoned  *)
(* generator): GeneratorExit unwinds execute from that yield.  execute     *)
(* has no try/finally and no `async with` around its `async for`, and      *)
(* never calls aclose on the provider stream: whether that stream is       *)
(* closed is left to the runtime's finalizer for asynchronous generators,  *)
(* which closes it when the stream is such a generator and the event loop  *)
(* has installed its hooks, and not otherwise.                             *)
(* The consumer's stop is recorded in `calls` as the mark "abandoned",     *)
(* the finalizer's close as "stream_completion.aclose".                    *)
(***************************************************************************)
ConsumerStops ==
    /\ pc \in {"await_event", "after_started", "after_completed", "after_result"}
    /\ output # <<>>
    /\ output[Len(output)].type # "CompletionFinished"
    /\ \E finalized \in BOOLEAN :
            calls' = calls
                \o << [op |-> "abandoned", read |-> Len(delivered), at |-> Len(output)] >>
                \o (IF finalized
                    THEN << [op |-> "stream_completion.aclose", read |-> Len(delivered)] >>
                    ELSE <<>>)
    /\ pc' = "closed"
    /\ UNCHANGED <<stream, raised, response, parked, registry, messages, tools, acc, event, k, tool_call, output, error,
                   delivered>>

NextConsumer ==
    \/ Start
    \/ ProviderText
    \/ ProviderToolCallStart
    \/ ResumeAfterStarted
    \/ ProviderToolCallContinuation
    \/ ProviderFinished
    \/ ExecuteBegin
    \/ ToolReturns
    \/ ToolRaises
    \/ ResumeAfterResult
    \/ ProviderEnd
    \/ ProviderFails
    \/ ConsumerStops

SpecConsumer == Init /\ [][NextConsumer]_vars

(***************************************************************************)
(* SpecTwo: two calls of execute on the same use-case instance, their      *)
(* steps interleaved in any order.  The event loop runs one generator at   *)
(* a time; the variables hold the frame of the one that runs and `parked`  *)
(* the frame of the other.  The instance holds the provider and the        *)
(* executor (its registry); everything else, the accumulator included, is  *)
(* local to a call.  Both provider streams use position 0.                 *)
(***************************************************************************)
MaxTwoEvents == 3

\* the frame of the generator that runs
Locals ==
    [messages |-> messages, pc |-> pc, tools |-> tools, acc |-> acc, event |-> event,
     k |-> k, tool_call |-> tool_call, output |-> output, error |-> error,
     delivered |-> delivered, calls |-> calls]

\* FrameAcc for an accumulator kept on the instance: the resumed call finds
\* what the other call left
FrameAccShared(f) == acc

\* line 49: tool_calls_in_progress is a local of the call, found again in
\* its frame when the call is resumed
FrameAcc(f) == f.acc

\* the event loop suspends the running generator and resumes the other one
Switch ==
    /\ parked' = Locals
    /\ messages' = parked.messages
    /\ pc' = parked.pc
    /\ tools' = parked.tools
    /\ acc' = FrameAcc(parked)
    /\ event' = parked.event
    /\ k' = parked.k
    /\ tool_call' = parked.tool_call
    /\ output' = parked.output
    /\ error' = parked.error
    /\ delivered' = parked.delivered
    /\ calls' = parked.calls
    /\ UNCHANGED <<registry, response, raised, stream>>

TwoStart ==
    /\ Len(delivered) < MaxTwoEvents
    /\ \E e \in {LLMToolCallDelta(0, "call_1", "mock_tool", ChunkWhole),
                 LLMToolCallDelta(0, "call_2", "failing_tool", NoneChunk)} :
          DeliverStart(e)

TwoContinuation ==
    /\ Len(delivered) < MaxTwoEvents
    /\ DeliverContinuation(LLMToolCallDelta(0, None, None, ChunkWhole))

TwoFinished ==
    /\ Len(delivered) < MaxTwoEvents
    /\ DeliverFinished(LLMFinished("tool_calls", 10, 5))

NextTwo ==
    \/ Start
    \/ TwoStart
    \/ ResumeAfterStarted
    \/ TwoContinuation
    \/ TwoFinished
    \/ ExecuteBegin
    \/ ToolReturns
    \/ ToolRaises
    \/ ResumeAfterResult
    \/ ProviderEnd
    \/ Switch

SpecTwo == InitTools /\ [][NextTwo]_vars

(***************************************************************************)
(* RunAlone: what execute yields, executes and raises when it consumes     *)
(* the events d, one call on its own, run until it is suspended on the     *)
(* provider stream again or has ended.                                     *)
(***************************************************************************)
\* lines 82-105 from entry j of the accumulator on
RECURSIVE RunTerminal(_, _, _, _)
RunTerminal(r, reg, e, j) ==
    IF j > Len(r.acc) THEN [r EXCEPT !.out = Append(@, FinishedEvent(e))]
    ELSE LET made == MakeToolCall(r.acc[j])
         IN  IF made.exc # "none" THEN [r EXCEPT !.exc = made.exc]
             ELSE LET r1 == [r EXCEPT !.out = Append(@, ToolCallCompleted(made.tool_call)),
                                      !.execs = Append(@, made.tool_call)]
                      entry == ExecuteEntry(reg, made.tool_call)
                  IN  IF entry # "await" THEN [r1 EXCEPT !.exc = entry]
                      ELSE IF \/ ToolNamed(reg, made.tool_call.name).raises
                              \/ ~ToolResultValid(made.tool_call.id)
                      THEN [r1 EXCEPT !.exc = "ToolExecutionError"]
                      ELSE RunTerminal(
                            [r1 EXCEPT !.out = Append(@,
                                ToolResultAvailable(ExecuteResult(made.tool_call)))],
                            reg, e, j + 1)

\* lines 54-105 for one low-level event
RunEvent(r, reg, e) ==
    IF e.type = "LLMTextDelta" THEN [r EXCEPT !.out = YieldText(@, e)]
    ELSE IF e.type = "LLMFinished" THEN RunTerminal(r, reg, e, 1)
    ELSE LET r1 == IF e.id # None
                   THEN [r EXCEPT !.acc = AccStart(@, e),
                                  !.out = Append(@, ToolCallStarted(e.id, OrEmpty(e.name)))]
                   ELSE r
         IN  IF ~TruthyChunk(e.arguments_chunk) THEN r1
             ELSE IF ~AccHas(r1.acc, e.index) THEN [r1 EXCEPT !.exc = "KeyError"]
             ELSE [r1 EXCEPT !.acc = AccAppend(@, e),
                             !.out = Append(@, ToolCallArgumentChunk(
                                        r1.acc[AccAt(r1.acc, e.index)].id,
                                        e.arguments_chunk))]

RECURSIVE RunAlone(_, _)
RunAlone(d, reg) ==
    IF d = <<>> THEN [acc |-> <<>>, out |-> <<>>, exc |-> "none", execs |-> <<>>]
    ELSE LET r == RunAlone(SubSeq(d, 1, Len(d) - 1), reg)
         IN  IF r.exc # "none" THEN r ELSE RunEvent(r, reg, d[Len(d)])

(***************************************************************************)
(* SpecChat: the chat endpoint.  stream_events takes the events of         *)
(* execute one by one, formats each and yields the protocol strings that   *)
(* are not empty.                                                          *)
(***************************************************************************)
MaxChatEvents == 3

\* handle_chat has returned StreamingResponse(stream_events()): the tools of
\* the tests are registered, the request had messages, nothing is taken yet
InitChat ==
    /\ registry = <<MockTool, FailingTool>>
    /\ messages = <<[role |-> "user", content |-> "Hello"]>>
    /\ pc = "init"
    /\ tools = <<>>
    /\ acc = <<>>
    /\ event = NoEvent
    /\ k = 0
    /\ tool_call = NoToolCall
    /\ output = <<>>
    /\ error = "none"
    /\ delivered = <<>>
    /\ calls = <<>>
    /\ parked = NewFrame(<<>>)
    /\ response = StreamingResponse
    /\ raised = NoException
    /\ stream = <<>>

ChatText ==
    /\ Len(delivered) < MaxChatEvents
    /\ \E c \in TextContents : DeliverText(LLMTextDelta(c))

ChatStart ==
    /\ Len(delivered) < MaxChatEvents
    /\ \E e \in {LLMToolCallDelta(0, "call_1", "mock_tool", ChunkWhole),
                 LLMToolCallDelta(1, "call_2", "failing_tool", ChunkWhole)} :
          DeliverStart(e)

ChatFinished ==
    /\ Len(delivered) < MaxChatEvents
    /\ DeliverFinished(LLMFinished("stop", 10, 5))

NextChat ==
    \/ Start
    \/ ChatText
    \/ ChatStart
    \/ ResumeAfterStarted
    \/ ChatFinished
    \/ ExecuteBegin
    \/ ToolReturns
    \/ ToolRaises
    \/ ResumeAfterResult
    \/ ProviderEnd
    \/ ProviderFails

SpecChat == InitChat /\ [][NextChat]_vars

(***************************************************************************)
(* SpecFormat: format_event applied to the ToolCallCompleted of one        *)
(* ToolCall, with ids and names that hold a quote or a backslash and       *)
(* arguments that are empty, flat, nested or hold a quote.                 *)
(***************************************************************************)
FormatToolCalls ==
    LET FormatIds == {"call_1", "a\"b", "a\\", "\\\\"}
        FormatNames == {"mock_tool", "failing_tool", "a\"b"}
        FormatArguments ==
    { [obj |-> <<>>],
      [obj |-> << [k |-> <<"a">>, v |-> [num |-> 1]] >>],
      [obj |-> << [k |-> <<"a">>, v |-> [str |-> <<"1">>]] >>],
      [obj |-> << [k |-> <<"a", "\"">>, v |-> [str |-> <<"\\", "a">>]] >>],
      [obj |-> << [k |-> <<"a">>, v |-> [num |-> 11]],
                  [k |-> <<"1">>, v |-> [obj |-> << [k |-> <<"a">>, v |-> [num |-> 1]] >>]] >>] }
    IN
    {ToolCall(id, name, arguments) :
        id \in FormatIds, name \in FormatNames, arguments \in FormatArguments}

\* stream_events has taken the ToolCallStarted and the ToolCallArgumentChunk
\* of a ToolCall whose id and name came with the start fragment and whose
\* arguments came with it as text; execute waits for the next fragment
InitFormat ==
    /\ registry = <<MockTool, FailingTool>>
    /\ messages = <<[role |-> "user", content |-> "Hello"]>>
    /\ pc = "await_event"
    /\ tools = registry
    /\ tool_call = NoToolCall
    /\ \E tc \in FormatToolCalls :
          /\ acc = << [index |-> 0, id |-> tc.id, name |-> tc.name,
                       arguments |-> JsonDumps(tc.arguments)] >>
          /\ event = LLMToolCallDelta(0, tc.id, tc.name, JsonDumps(tc.arguments))
          /\ output = << ToolCallStarted(tc.id, tc.name),
                         ToolCallArgumentChunk(tc.id, JsonDumps(tc.arguments)) >>
    /\ k = 0
    /\ delivered = <<event>>
    /\ error = "none"
    /\ calls = StartCalls(messages, registry)
    /\ parked = NewFrame(<<>>)
    /\ response = StreamEvents(StreamEvents(StreamingResponse, SubSeq(output, 1, 1)), output)
    /\ raised = NoException
    /\ stream = <<>>

\* the terminal event arrives: ToolCallCompleted is yielded and formatted
FormatFinished ==
    /\ Len(delivered) = 1
    /\ DeliverFinished(LLMFinished("tool_calls", 10, 5))

NextFormat ==
    \/ FormatFinished
    \/ ExecuteBegin
    \/ ToolReturns
    \/ ToolRaises
    \/ ResumeAfterResult

SpecFormat == InitFormat /\ [][NextFormat]_vars

(***************************************************************************)
(* ToolExecutor.execute on its own: a registry and a ToolCall are drawn,   *)
(* the use case has just yielded the ToolCallCompleted of the call and     *)
(* hands it to the executor.                                               *)
(***************************************************************************)
\* the arguments are {}, {"a": 1}, {"a": "1"}, {"a": "a"},
\* {"a": 11, "1": {"a": 1}} and 1
ExecToolCalls ==
    LET ExecIds == {"call_1", "call_2"}
        ExecNames == {"mock_tool", "failing_tool"}
        ExecArguments ==
    { [obj |-> <<>>],
      [obj |-> << [k |-> <<"a">>, v |-> [num |-> 1]] >>],
      [obj |-> << [k |-> <<"a">>, v |-> [str |-> <<"1">>]] >>],
      [obj |-> << [k |-> <<"a">>, v |-> [str |-> <<"a">>]] >>],
      [obj |-> << [k |-> <<"a">>, v |-> [num |-> 11]],
                  [k |-> <<"1">>, v |-> [obj |-> << [k |-> <<"a">>, v |-> [num |-> 1]] >>]] >>],
      [num |-> 1] }
    IN
    {ToolCall(id, name, arguments) :
        id \in ExecIds, name \in ExecNames, arguments \in ExecArguments}

InitExecutor ==
    /\ registry \in {<<>>, <<MockTool>>, <<FailingTool>>, <<MockTool, FailingTool>>}
    /\ messages = <<>>
    /\ pc = "after_completed"
    /\ tools = registry
    /\ tool_call \in ExecToolCalls
    /\ acc = << [index |-> 0, id |-> tool_call.id, name |-> tool_call.name,
                 arguments |-> JsonDumps(tool_call.arguments)] >>
    /\ event = LLMFinished("tool_calls", 10, 5)
    /\ k = 1
    /\ delivered = << LLMToolCallDelta(0, tool_call.id, tool_call.name,
                                       JsonDumps(tool_call.arguments)),
                      event >>
    /\ output = << ToolCallStarted(tool_call.id, tool_call.name),
                   ToolCallArgumentChunk(tool_call.id, JsonDumps(tool_call.arguments)),
                   ToolCallCompleted(tool_call) >>
    /\ error = "none"
    /\ calls = StartCalls(messages, registry)
    /\ parked = NewFrame(<<>>)
    /\ response = NoResponse
    /\ raised = NoException
    /\ stream = <<>>

NextExecutor ==
    \/ ExecuteBegin
    \/ ToolReturns
    \/ ToolRaises

SpecExecutor == InitExecutor /\ [][NextExecutor]_vars

(***************************************************************************)
(* ToolExecutor.register_tool: tools are registered on a new executor,     *)
(* some of them under the name of a tool registered before, and execute    *)
(* then asks the executor for its tools.                                   *)
(***************************************************************************)
MaxRegistrations == 3

\* RegisterTool on a list of tools instead of a dict keyed by name
RegisterToolAppending(reg, tool) == Append(reg, tool)

\* line 17: self._tools[tool.name] = tool; a key met again keeps its place
RegisterTool(reg, tool) ==
    IF tool.name \in RegisteredNames(reg)
    THEN [n \in 1..Len(reg) |-> IF reg[n].name = tool.name THEN tool ELSE reg[n]]
    ELSE Append(reg, tool)

\* ToolExecutor(): line 13
InitRegister ==
    /\ registry = <<>>
    /\ messages = <<>>
    /\ pc = "init"
    /\ tools = <<>>
    /\ acc = <<>>
    /\ event = NoEvent
    /\ k = 0
    /\ tool_call = NoToolCall
    /\ output = <<>>
    /\ error = "none"
    /\ delivered = <<>>
    /\ calls = <<>>
    /\ parked = NewFrame(<<>>)
    /\ response = NoResponse
    /\ raised = NoException
    /\ stream = <<>>

Register ==
    /\ pc = "init"
    /\ Len(calls) < MaxRegistrations
    \* the two tools of the tests and a second tool under each of their names
    /\ \E tool \in {MockTool, FailingTool,
                    [name |-> "mock_tool", raises |-> TRUE],
                    [name |-> "failing_tool", raises |-> FALSE]} :
          /\ registry' = RegisterTool(registry, tool)
          /\ calls' = Append(calls, [op |-> "register_tool", tool |-> tool])
    /\ UNCHANGED <<stream, raised, response, parked, messages, pc, tools, acc, event, k,
                   tool_call, output, error, delivered>>

NextRegister ==
    \/ Register
    \/ Start

SpecRegister == InitRegister /\ [][NextRegister]_vars

(***************************************************************************)
(* Message (domain/entities/message.py) and MessageMapper.to_domain        *)
(* (web/mappers/message_mapper.py).  A str content is the sequence of its  *)
(* characters; an Optional list is the list, None being the empty list     *)
(* (the code tests these lists for truth only).                            *)
(***************************************************************************)
MaxClientMessages == 2
MaxInvocations == 2

MessageRoles == {"user", "assistant", "system", "tool"}

\* MessageValid that lets a tool message go without a tool_call_id
MessageValidContentOnly(role, content, tool_call_id) ==
    ~(content = <<>> /\ role # "assistant")

\* Message.__post_init__: lines 44 to 47
MessageValid(role, content, tool_call_id) ==
    /\ ~(content = <<>> /\ role # "assistant")
    /\ ~(role = "tool" /\ ~Truthy(tool_call_id))

Message(role, content, attachments, tool_call_id, tool_calls) ==
    [role |-> role, content |-> content, attachments |-> attachments,
     tool_call_id |-> tool_call_id, tool_calls |-> tool_calls]

\* Attachment.__post_init__
AttachmentValid(content_type, url) == Truthy(content_type) /\ Truthy(url)
Attachment(content_type, url) == [content_type |-> content_type, url |-> url]

ToolInvocation(state, toolCallId, toolName, args, result) ==
    [state |-> state, toolCallId |-> toolCallId, toolName |-> toolName,
     args |-> args, result |-> result]

ClientMessage(role, content, experimental_attachments, toolInvocations) ==
    [role |-> role, content |-> content,
     experimental_attachments |-> experimental_attachments,
     toolInvocations |-> toolInvocations]

\* lines 24 to 30
AttachmentsOf(client_message) ==
    LET atts == client_message.experimental_attachments
    IN  [n \in 1..Len(atts) |-> Attachment(atts[n].contentType, atts[n].url)]

\* lines 33 to 43: a ToolCall for each invocation in state call or result
\* of an assistant message
ToolCallsOf(client_message) ==
    LET called ==
            IF client_message.toolInvocations # <<>> /\ client_message.role = "assistant"
            THEN SelectSeq(client_message.toolInvocations,
                           LAMBDA invocation : invocation.state \in {"call", "result"})
            ELSE <<>>
    IN  [n \in 1..Len(called) |->
            ToolCall(called[n].toolCallId, called[n].toolName, called[n].args)]

\* lines 46 to 51
MainMessage(client_message) ==
    Message(client_message.role, Chars(client_message.content),
            AttachmentsOf(client_message), None, ToolCallsOf(client_message))

\* ToolMessages with a tool message for every invocation, whatever its state
ToolMessagesAnyState(client_message) ==
    LET invs == client_message.toolInvocations
    IN  [n \in 1..Len(invs) |->
            Message("tool", JsonDumps(invs[n].result), <<>>, invs[n].toolCallId, <<>>)]

\* lines 54 to 61: a tool message for each invocation in state result
ToolMessages(client_message) ==
    LET invs == SelectSeq(client_message.toolInvocations,
                          LAMBDA invocation : invocation.state = "result")
    IN  [n \in 1..Len(invs) |->
            Message("tool", JsonDumps(invs[n].result), <<>>, invs[n].toolCallId, <<>>)]

\* one of the constructors called for the client message raises ValueError
MapFails(client_message) ==
    \/ \E n \in 1..Len(client_message.experimental_attachments) :
          LET att == client_message.experimental_attachments[n]
          IN  ~AttachmentValid(att.contentType, att.url)
    \/ \E n \in 1..Len(ToolCallsOf(client_message)) :
          LET call == ToolCallsOf(client_message)[n]
          IN  ~ToolCallValid(call.id, call.name)
    \/ client_message.role \notin MessageRoles
    \/ ~MessageValid(client_message.role, Chars(client_message.content), None)
    \/ \E n \in 1..Len(ToolMessages(client_message)) :
          LET m == ToolMessages(client_message)[n]
          IN  ~MessageValid(m.role, m.content, m.tool_call_id)

\* MessageMapper.to_domain: [ok, messages], ok being FALSE when it raises
RECURSIVE ToDomain(_)
ToDomain(client_messages) ==
    IF client_messages = <<>> THEN [ok |-> TRUE, messages |-> <<>>]
    ELSE LET n == Len(client_messages)
             before == ToDomain(SubSeq(client_messages, 1, n - 1))
             client_message == client_messages[n]
         IN  IF ~before.ok \/ MapFails(client_message)
             THEN [ok |-> FALSE, messages |-> <<>>]
             ELSE [ok |-> TRUE,
                   messages |-> before.messages
                                \o <<MainMessage(client_message)>>
                                \o ToolMessages(client_message)]

\* the client's invocations: results of two calls, one of them of the empty
\* string, a call and a partial call; a result with an empty toolCallId
Invocations ==
    { ToolInvocation("result", "call_1", "mock_tool",
                     [obj |-> << [k |-> <<"a">>, v |-> [num |-> 1]] >>],
                     [obj |-> << [k |-> Chars("args"), v |-> [num |-> 11]] >>]),
      ToolInvocation("result", "call_2", "mock_tool", [obj |-> <<>>], [str |-> <<>>]),
      ToolInvocation("call", "call_1", "mock_tool", [obj |-> <<>>], [str |-> <<>>]),
      ToolInvocation("partial-call", "call_2", "mock_tool", [obj |-> <<>>], [str |-> <<>>]),
      ToolInvocation("result", "", "mock_tool", [obj |-> <<>>], [num |-> 1]) }

RECURSIVE SeqsUpTo(_, _)
SeqsUpTo(S, n) ==
    IF n = 0 THEN {<<>>}
    ELSE LET shorter == SeqsUpTo(S, n - 1)
         IN  shorter \cup {Append(q, x) : q \in shorter, x \in S}

ClientMessages ==
    {ClientMessage("assistant", "", <<>>, invs) : invs \in SeqsUpTo(Invocations, MaxInvocations)}
    \cup {ClientMessage("user", "Hello", atts, invs) :
            atts \in {<<>>, <<[contentType |-> "image/png",
                                 url |-> "https://example.com/image.png"]>>},
            invs \in SeqsUpTo(Invocations, 1)}
    \cup {ClientMessage("assistant", "Hello", <<>>, <<>>),
          ClientMessage("system", "Hello", <<>>, <<>>),
          ClientMessage("user", "", <<>>, <<>>),
          ClientMessage("tool", "Hello", <<>>, <<>>),
          ClientMessage("function", "Hello", <<>>, <<>>),
          ClientMessage("user", "Hello",
                        <<[contentType |-> "", url |-> "https://example.com/image.png"]>>,
                        <<>>)}

\* POST /api/chat has been received, handle_chat has not run
InitMapper ==
    /\ registry = <<MockTool, FailingTool>>
    /\ messages = <<>>
    /\ pc = "request"
    /\ tools = <<>>
    /\ acc = <<>>
    /\ event = NoEvent
    /\ k = 0
    /\ tool_call = NoToolCall
    /\ output = <<>>
    /\ error = "none"
    /\ delivered = <<>>
    /\ calls = <<>>
    /\ parked = NewFrame(<<>>)
    /\ response = NoResponse
    /\ raised = NoException
    /\ stream = <<>>

\* chat.py line 32: domain_messages = MessageMapper.to_domain(request.messages)
HandleChat ==
    /\ pc = "request"
    /\ \E client_messages \in SeqsUpTo(ClientMessages, MaxClientMessages) :
          /\ calls' = Append(calls, [op |-> "to_domain",
                                     client_messages |-> client_messages])
          /\ LET mapped == ToDomain(client_messages)
             IN  IF mapped.ok
                 THEN /\ messages' = mapped.messages
                      /\ pc' = "init"
                      \* lines 35-43: the StreamingResponse around execute
                      /\ response' = StreamingResponse
                      /\ UNCHANGED error
                 ELSE Raise("ValueError") /\ UNCHANGED <<messages, response>>
    /\ UNCHANGED <<stream, raised, parked, registry, tools, acc, event, k, tool_call,
                   output, delivered>>

NextMapper == HandleChat

SpecMapper == InitMapper /\ [][NextMapper]_vars

(***************************************************************************)
(* Message(role, content, tool_call_id) called directly, as the tests of   *)
(* the entity do: the Messages that exist are collected in `messages`.     *)
(***************************************************************************)
MaxMessages == 2

NewMessage ==
    /\ pc = "request"
    /\ Len(calls) < MaxMessages
    /\ \E role \in MessageRoles, content \in {<<>>, Chars("Hello")},
          tool_call_id \in {None, "", "call_1"} :
          /\ calls' = Append(calls, [op |-> "Message", role |-> role, content |-> content,
                                     tool_call_id |-> tool_call_id])
          /\ IF MessageValid(role, content, tool_call_id)
             THEN /\ messages' = Append(messages,
                                        Message(role, content, <<>>, tool_call_id, <<>>))
                  /\ UNCHANGED <<pc, error>>
             ELSE Raise("ValueError") /\ UNCHANGED messages
    /\ UNCHANGED <<stream, raised, response, parked, registry, tools, acc, event, k, tool_call,
                   output, delivered>>

NextMessage == NewMessage

SpecMessage == InitMapper /\ [][NextMessage]_vars

(***************************************************************************)
(* OpenAILLMAdapter.stream_completion (infrastructure/llm/                 *)
(* openai_adapter.py), lines 45 to 72: the chunks of the OpenAI stream     *)
(* become low-level events.  A chunk is [choices, usage]; a choice is      *)
(* [delta, finish_reason]; a delta is [content, tool_calls], the list      *)
(* tool_calls being empty for None.                                        *)
(***************************************************************************)
MaxChunks == 3

NoUsage == [absent |-> TRUE]
Usage(prompt_tokens, completion_tokens) ==
    [prompt_tokens |-> prompt_tokens, completion_tokens |-> completion_tokens]

NoFunction == [absent |-> TRUE]
Function(name, arguments) == [name |-> name, arguments |-> arguments]

ChoiceDeltaToolCall(index, id, function) ==
    [index |-> index, id |-> id, function |-> function]
ChoiceDelta(content, tool_calls) == [content |-> content, tool_calls |-> tool_calls]
Choice(delta, finish_reason) == [delta |-> delta, finish_reason |-> finish_reason]
ChatCompletionChunk(choices, usage) == [choices |-> choices, usage |-> usage]

\* lines 54 to 59
ToolCallDeltaOf(tc) ==
    LLMToolCallDelta(tc.index, tc.id,
        IF tc.function # NoFunction THEN tc.function.name ELSE None,
        IF tc.function # NoFunction THEN tc.function.arguments ELSE NoneChunk)

\* lines 48 to 59: what one turn of `for choice in chunk.choices` yields
ChoiceEvents(choice) ==
    (IF Truthy(choice.delta.content)
     THEN <<LLMTextDelta(choice.delta.content)>> ELSE <<>>)
    \o [n \in 1..Len(choice.delta.tool_calls) |->
            ToolCallDeltaOf(choice.delta.tool_calls[n])]

RECURSIVE ChoicesEvents(_)
ChoicesEvents(choices) ==
    IF choices = <<>> THEN <<>>
    ELSE ChoiceEvents(Head(choices)) \o ChoicesEvents(Tail(choices))

\* FinishReasonOf without the default of a chunk that has no choice
FinishReasonOrNone(chunk) ==
    IF chunk.choices # <<>> THEN chunk.choices[1].finish_reason ELSE None

\* line 67
FinishReasonOf(chunk) ==
    IF chunk.choices # <<>> THEN chunk.choices[1].finish_reason ELSE "stop"

\* ChunkEvents with an LLMFinished for the chunk that reports the finish
\* reason as well as for the one that carries the usage
ChunkEventsEveryFinish(chunk) ==
    ChoicesEvents(chunk.choices)
    \o (IF chunk.usage # NoUsage
        THEN <<LLMFinished(FinishReasonOf(chunk), chunk.usage.prompt_tokens,
                           chunk.usage.completion_tokens)>>
        ELSE IF chunk.choices # <<>> /\ chunk.choices[1].finish_reason # None
        THEN <<LLMFinished(chunk.choices[1].finish_reason, 0, 0)>>
        ELSE <<>>)

\* lines 46 to 72: what the body of `async for chunk in stream` yields
ChunkEvents(chunk) ==
    ChoicesEvents(chunk.choices)
    \o (IF chunk.usage # NoUsage
        THEN <<LLMFinished(FinishReasonOf(chunk), chunk.usage.prompt_tokens,
                           chunk.usage.completion_tokens)>>
        ELSE <<>>)

\* the events stream_completion yields while it reads chs
RECURSIVE AdapterEvents(_)
AdapterEvents(chs) ==
    IF chs = <<>> THEN <<>>
    ELSE AdapterEvents(SubSeq(chs, 1, Len(chs) - 1)) \o ChunkEvents(chs[Len(chs)])

(***************************************************************************)
(* The OpenAI stream.  The adapter reads whatever chunks come and stops    *)
(* when the stream stops: chunks with one choice and a delta or with no    *)
(* choice, chunks whose choice reports a finish reason, chunks with no     *)
(* choice that carry the usage (what include_usage asks for), chunks that  *)
(* carry both (the shape of the adapter's tests), in any order and number. *)
(***************************************************************************)
NextChunks(chs) ==
    LET
        UpstreamFinishReasons == {"stop", "tool_calls", "length", "content_filter"}
        Usages == {Usage(10, 5), Usage(15, 0)}
        EmptyDelta == ChoiceDelta(None, <<>>)
        DeltaChunks ==
            {ChatCompletionChunk(<<Choice(ChoiceDelta(c, <<>>), None)>>, NoUsage) : c \in TextContents}
            \cup {ChatCompletionChunk(<<Choice(ChoiceDelta(None, <<tc>>), None)>>, NoUsage) :
                    tc \in {ChoiceDeltaToolCall(0, "call_1", Function("mock_tool", <<>>)),
                            ChoiceDeltaToolCall(1, "call_2", Function("failing_tool", ChunkWhole)),
                            ChoiceDeltaToolCall(0, None, Function(None, ChunkWhole)),
                            ChoiceDeltaToolCall(0, None, NoFunction)}}
            \cup {ChatCompletionChunk(<<>>, NoUsage)}
        FinishChunks ==
            {ChatCompletionChunk(<<Choice(EmptyDelta, r)>>, NoUsage) : r \in UpstreamFinishReasons}
        UsageChunks == {ChatCompletionChunk(<<>>, u) : u \in Usages}
        FinishUsageChunks ==
            {ChatCompletionChunk(<<Choice(EmptyDelta, r)>>, u) :
                r \in UpstreamFinishReasons, u \in Usages}
    IN
    IF Len(chs) < MaxChunks
    THEN DeltaChunks \cup FinishChunks \cup UsageChunks \cup FinishUsageChunks
    ELSE {}

\* line 45: stream_completion, asked for its next event, reads a chunk
AdapterReads ==
    /\ pc = "await_event"
    /\ Len(delivered) = Len(AdapterEvents(stream))
    /\ \E chunk \in NextChunks(stream) : stream' = Append(stream, chunk)
    /\ UNCHANGED <<raised, response, parked, registry, messages, pc, tools, acc, event, k,
                   tool_call, output, error, delivered, calls>>

\* stream_completion yields its next event to the async for of execute
AdapterYields ==
    /\ pc = "await_event"
    /\ Len(delivered) < Len(AdapterEvents(stream))
    /\ LET e == AdapterEvents(stream)[Len(delivered) + 1]
       IN  CASE e.type = "LLMTextDelta" -> DeliverText(e)
             [] e.type = "LLMToolCallDelta" ->
                    IF e.id # None THEN DeliverStart(e) ELSE DeliverContinuation(e)
             [] e.type = "LLMFinished" -> DeliverFinished(e)

\* line 45: the OpenAI stream stops, after any chunk or before the first:
\* the async for ends and stream_completion returns
AdapterEnds ==
    /\ Len(delivered) = Len(AdapterEvents(stream))
    /\ ProviderEnd

NextAdapter ==
    \/ Start
    \/ AdapterReads
    \/ AdapterYields
    \/ ResumeAfterStarted
    \/ ExecuteBegin
    \/ ToolReturns
    \/ ToolRaises
    \/ ResumeAfterResult
    \/ AdapterEnds

SpecAdapter == InitTools /\ [][NextAdapter]_vars

TypeOK ==
    /\ pc \in {"request", "init", "await_event", "after_started", "after_completed", "executing",
               "after_result", "done", "failed", "closed"}
    /\ Len(delivered) <= MaxEvents \/ Len(delivered) <= MaxToolEvents
    /\ (pc = "failed") = (error # "none")

(***************************************************************************)
(* Observations on the histories.                                          *)
(***************************************************************************)
OfType(seq, t) == SelectSeq(seq, LAMBDA x : x.type = t)
CountType(seq, t) == Len(OfType(seq, t))
Executes == SelectSeq(calls, LAMBDA c : c.op = "execute")

\* index in d of the first terminal event, 0 when there is none
FirstTerminal(d) ==
    IF \E i \in 1..Len(d) : d[i].type = "LLMFinished"
    THEN CHOOSE i \in 1..Len(d) :
            /\ d[i].type = "LLMFinished"
            /\ \A j \in 1..(i - 1) : d[j].type # "LLMFinished"
    ELSE 0

\* the events delivered before the first terminal event
BeforeTerminal(d) ==
    IF FirstTerminal(d) = 0 THEN d ELSE SubSeq(d, 1, FirstTerminal(d) - 1)

\* the generator is suspended between two low-level events, or has ended
AtRest == pc \in {"await_event", "done", "failed"}

(***************************************************************************)
(* C4: a stream of text fragments followed by the terminal event yields    *)
(* one TextDelta per fragment, with its content and in the same order,     *)
(* then one CompletionFinished; no tool event is yielded and the executor  *)
(* is never invoked.                                                       *)
(***************************************************************************)
TextOnlyStream(d) ==
    /\ \A i \in 1..Len(BeforeTerminal(d)) : d[i].type = "LLMTextDelta"
    /\ FirstTerminal(d) \in {0, Len(d)}

C4_TextOnly ==
    TextOnlyStream(delivered) =>
        LET texts == BeforeTerminal(delivered)
        IN  /\ Len(output) = Len(delivered)
            /\ \A i \in 1..Len(texts) : output[i] = TextDelta(texts[i].content)
            /\ FirstTerminal(delivered) # 0 =>
                    output[Len(output)].type = "CompletionFinished"
            /\ Executes = <<>>
            /\ pc # "failed" \/ error \in ProviderErrors

C4_Witness ==
    /\ Len(delivered) = 3
    /\ delivered[1] = LLMTextDelta("Hello")
    /\ delivered[2] = LLMTextDelta("Hello")
    /\ delivered[3].type = "LLMFinished"
    /\ Len(output) = 3
    /\ pc = "done"

(***************************************************************************)
(* C10: every orchestration queries the tool registry exactly once and     *)
(* requests the provider stream exactly once, with the history it was      *)
(* given and the queried tools; the query comes before the request and     *)
(* both come before any low-level event is read.                           *)
(***************************************************************************)
C10_SetupCalls ==
    /\ pc = "init" => calls = <<>> /\ delivered = <<>>
    /\ pc # "init" =>
        /\ Len(calls) >= 2
        /\ calls[1] = [op |-> "get_registered_tools", read |-> 0]
        /\ calls[2] = [op |-> "stream_completion", read |-> 0,
                       messages |-> messages, tools |-> registry]
        /\ \A i \in 3..Len(calls) : calls[i].op = "execute"

C10_Witness ==
    /\ messages = <<>>
    /\ registry # <<>>
    /\ Len(delivered) = 2
    /\ pc = "done"

(***************************************************************************)
(* What the stream delivered says about the tool calls.                    *)
(***************************************************************************)
IsStart(e) == e.type = "LLMToolCallDelta" /\ e.id # None
IsFragment(e) == e.type = "LLMToolCallDelta" /\ TruthyChunk(e.arguments_chunk)

\* the start fragments delivered before the terminal event, in arrival order
Starts(d) == SelectSeq(BeforeTerminal(d), IsStart)

\* no position is started twice
DistinctPositions(d) ==
    \A i, j \in 1..Len(Starts(d)) : i # j => Starts(d)[i].index # Starts(d)[j].index

\* the terminal event, if delivered, is the last event delivered
TerminalLast(d) == FirstTerminal(d) \in {0, Len(d)}

\* the output up to and including the first CompletionFinished
RECURSIVE UntilFinished(_)
UntilFinished(out) ==
    IF out = <<>> THEN <<>>
    ELSE IF Head(out).type = "CompletionFinished" THEN <<Head(out)>>
    ELSE <<Head(out)>> \o UntilFinished(Tail(out))

\* the events the terminal branch yields
IsTerminalBranchEvent(x) ==
    x.type \in {"ToolCallCompleted", "ToolResultAvailable", "CompletionFinished"}

(***************************************************************************)
(* C2: for tool calls started at distinct positions, whatever the order of *)
(* their fragments, the terminal branch yields for each call its           *)
(* ToolCallCompleted immediately followed by its ToolResultAvailable,      *)
(* call after call in the order the positions were started, with nothing   *)
(* in between; when CompletionFinished is reached every call had its pair. *)
(***************************************************************************)
C2_PairsInStartOrder ==
    DistinctPositions(delivered) =>
        LET st == Starts(delivered)
            out == UntilFinished(output)
            T == SelectSeq(out, IsTerminalBranchEvent)
            n == Len(out) - Len(T)
        IN  \* the terminal branch's events come last, nothing among them
            /\ \A i \in 1..Len(T) : out[n + i] = T[i]
            /\ \A i \in 1..Len(T) :
                LET m == (i + 1) \div 2
                IN  IF T[i].type = "CompletionFinished"
                    THEN i = 2 * Len(st) + 1
                    ELSE /\ m <= Len(st)
                         /\ i % 2 = 1 =>
                                /\ T[i].type = "ToolCallCompleted"
                                /\ T[i].tool_call.id = st[m].id
                                /\ T[i].tool_call.name = OrEmpty(st[m].name)
                         /\ i % 2 = 0 =>
                                /\ T[i].type = "ToolResultAvailable"
                                /\ T[i].tool_result.call_id = st[m].id
                                /\ T[i].tool_result.name = OrEmpty(st[m].name)

C2_Witness ==
    /\ Len(delivered) = 5
    /\ \A i \in 1..4 : delivered[i].type = "LLMToolCallDelta"
    /\ Len(Starts(delivered)) = 2
    /\ Starts(delivered)[1].index = 1
    /\ Starts(delivered)[2].index = 0
    /\ delivered[3].index = 0
    /\ delivered[4].index = 1
    /\ CountType(output, "ToolResultAvailable") = 2
    /\ CountType(output, "CompletionFinished") = 1

(***************************************************************************)
(* C3: a single tool call started with id i, N argument fragments whose    *)
(* concatenation is well-formed, then the terminal event: the output is    *)
(* ToolCallStarted(i), the N ToolCallArgumentChunk in arrival order,       *)
(* ToolCallCompleted with the parse of the concatenation,                  *)
(* ToolResultAvailable for i and CompletionFinished, and nothing else.     *)
(* The output is at every moment a prefix of that sequence, and it is the  *)
(* whole of it once the terminal event has been handled, unless the        *)
(* executor failed on the call.                                            *)
(***************************************************************************)
RECURSIVE Concat(_)
Concat(chunks) == IF chunks = <<>> THEN <<>> ELSE Head(chunks) \o Concat(Tail(chunks))

FragmentsOf(d) == [i \in 1..(Len(d) - 2) |-> d[i + 1].arguments_chunk]

SingleCallStream(d) ==
    /\ Len(d) >= 3
    /\ IsStart(d[1])
    /\ ~TruthyChunk(d[1].arguments_chunk)
    /\ d[Len(d)].type = "LLMFinished"
    /\ \A i \in 2..(Len(d) - 1) :
        /\ IsFragment(d[i])
        /\ d[i].id = None
        /\ d[i].index = d[1].index
    /\ JsonLoads(Concat(FragmentsOf(d))).ok

C3_SingleCall ==
    SingleCallStream(delivered) =>
        LET d == delivered
            N == Len(d) - 2
            id == d[1].id
            name == OrEmpty(d[1].name)
            args == JsonLoads(Concat(FragmentsOf(d))).val
        IN  /\ Len(output) <= N + 4
            /\ \A i \in 1..Len(output) :
                CASE i = 1 -> output[i] = ToolCallStarted(id, name)
                  [] i \in 2..(N + 1) ->
                        output[i] = ToolCallArgumentChunk(id, d[i].arguments_chunk)
                  [] i = N + 2 -> output[i] = ToolCallCompleted(ToolCall(id, name, args))
                  [] i = N + 3 -> /\ output[i].type = "ToolResultAvailable"
                                  /\ output[i].tool_result.call_id = id
                  [] OTHER -> output[i] = FinishedEvent(d[Len(d)])
            /\ AtRest =>
                IF error \in {"ToolNotFoundError", "ToolExecutionError"}
                THEN Len(output) = N + 2 /\ Len(Executes) = 1
                ELSE Len(output) = N + 4 /\ error \in {"none"} \cup ProviderErrors

C3_Witness ==
    /\ SingleCallStream(delivered)
    /\ Len(delivered) = 5
    /\ Concat(FragmentsOf(delivered)) = ChunkOpen \o ChunkDigit \o ChunkClose
    /\ Len(output) = 7
    /\ pc = "done"

(***************************************************************************)
(* C5: the call id is preserved across the events of a tool call.  When    *)
(* no position is started twice, every ToolCallArgumentChunk carries the   *)
(* id of the start of its fragment's position, the ToolCallCompleted       *)
(* events carry the ids of the starts in start order, and every            *)
(* ToolResultAvailable carries the id of the ToolCallCompleted before it.  *)
(***************************************************************************)
\* the id of the start delivered for position p
StartIdAt(d, p) ==
    LET st == Starts(d)
    IN  st[CHOOSE i \in 1..Len(st) : st[i].index = p].id

C5_CallIdPreserved ==
    (DistinctPositions(delivered) /\ TerminalLast(delivered)) =>
        LET d == delivered
            fragments == SelectSeq(BeforeTerminal(d), IsFragment)
            chunks == OfType(output, "ToolCallArgumentChunk")
            completed == OfType(output, "ToolCallCompleted")
        IN  /\ Len(chunks) <= Len(fragments)
            /\ \A j \in 1..Len(chunks) :
                /\ chunks[j].arguments_chunk = fragments[j].arguments_chunk
                /\ chunks[j].call_id = StartIdAt(d, fragments[j].index)
            /\ Len(completed) <= Len(Starts(d))
            /\ \A j \in 1..Len(completed) : completed[j].tool_call.id = Starts(d)[j].id
            /\ \A i \in 1..Len(output) :
                output[i].type = "ToolResultAvailable" =>
                    /\ i > 1
                    /\ output[i - 1].type = "ToolCallCompleted"
                    /\ output[i].tool_result.call_id = output[i - 1].tool_call.id

C5_Witness ==
    /\ Len(delivered) = 3
    /\ delivered[1] = LLMToolCallDelta(1, "call_1", "mock_tool", NoneChunk)
    /\ delivered[2] = LLMToolCallDelta(1, None, None, ChunkWhole)
    /\ output[2] = ToolCallArgumentChunk("call_1", ChunkWhole)
    /\ Len(output) = 5
    /\ output[4].tool_result.call_id = "call_1"

(***************************************************************************)
(* C7: when the executor fails on a tool call, the failure leaves the      *)
(* generator at that call: nothing is yielded after the call's             *)
(* ToolCallCompleted (no ToolResultAvailable, no later ToolCallCompleted,  *)
(* no CompletionFinished) and no later call is executed.                   *)
(***************************************************************************)
\* the executor fails on the call: unregistered name, rejected arguments, or
\* a tool that raises
ExecutorFailsOn(tc) ==
    \/ ExecuteEntry(registry, tc) # "await"
    \/ ToolNamed(registry, tc.name).raises

ExecutorError(tc) ==
    IF tc.name \notin RegisteredNames(registry)
    THEN "ToolNotFoundError" ELSE "ToolExecutionError"

C7_ExecutorFailurePropagates ==
    \A i \in 1..Len(calls) :
        (calls[i].op = "execute" /\ ExecutorFailsOn(calls[i].tool_call)) =>
            /\ i = Len(calls)
            /\ Len(output) = calls[i].at
            /\ output[Len(output)] = ToolCallCompleted(calls[i].tool_call)
            /\ \/ pc = "failed" /\ error = ExecutorError(calls[i].tool_call)
               \/ pc = "executing" /\ ExecuteEntry(registry, calls[i].tool_call) = "await"

C7_Witness ==
    /\ pc = "failed"
    /\ error = "ToolExecutionError"
    /\ Len(acc) = 2
    /\ JsonLoads(acc[2].arguments).ok
    /\ Len(Executes) = 1
    /\ CountType(output, "ToolCallCompleted") = 1

(***************************************************************************)
(* C8: when the terminal event arrives and the text accumulated for an     *)
(* entry is not well-formed, no ToolCallCompleted is yielded for that      *)
(* entry nor for a later one, they are never handed to the executor, no    *)
(* CompletionFinished is yielded and the generator fails; nothing is       *)
(* yielded after the parse failure.                                        *)
(***************************************************************************)
Malformed(j) == ~JsonLoads(acc[j].arguments).ok

C8_MalformedArguments ==
    (FirstTerminal(delivered) # 0 /\ FirstTerminal(delivered) = Len(delivered)) =>
        \A j \in 1..Len(acc) :
            Malformed(j) =>
                /\ CountType(output, "ToolCallCompleted") < j
                /\ Len(Executes) < j
                /\ CountType(output, "CompletionFinished") = 0
                /\ AtRest => pc = "failed"
                /\ (pc = "failed" /\ error = "JSONDecodeError") =>
                        /\ CountType(output, "ToolCallCompleted")
                                = CountType(output, "ToolResultAvailable")
                        /\ output # <<>> =>
                                output[Len(output)].type # "ToolCallCompleted"

C8_Witness ==
    /\ pc = "failed"
    /\ error = "JSONDecodeError"
    /\ Len(delivered) = 3
    /\ delivered[3].type = "LLMFinished"
    /\ Len(acc) = 1
    /\ acc[1].arguments = ChunkOpen
    /\ Len(output) = 2

(***************************************************************************)
(* C9: tool executions are sequential.  The j-th invocation of the         *)
(* executor is for the j-th recorded entry, it is made right after that    *)
(* call's ToolCallCompleted was yielded and, for j > 1, right after the    *)
(* ToolResultAvailable of the call before; at most one invocation is in    *)
(* flight; when CompletionFinished is yielded every entry has been         *)
(* executed exactly once.                                                  *)
(***************************************************************************)
\* invocations made and neither returned nor failed
InFlight ==
    Len(Executes) - CountType(output, "ToolResultAvailable")
        - (IF error \in {"ToolNotFoundError", "ToolExecutionError"} THEN 1 ELSE 0)

C9_SequentialExecution ==
    TerminalLast(delivered) =>
        LET E == Executes
        IN  /\ Len(E) <= Len(acc)
            /\ \A j \in 1..Len(E) :
                /\ E[j].tool_call = ToolCall(acc[j].id, acc[j].name,
                                             JsonLoads(acc[j].arguments).val)
                /\ E[j].at = (Len(output) - Len(SelectSeq(output, IsTerminalBranchEvent)))
                                + 2 * j - 1
                /\ output[E[j].at] = ToolCallCompleted(E[j].tool_call)
                /\ j > 1 =>
                    /\ output[E[j].at - 1].type = "ToolResultAvailable"
                    /\ output[E[j].at - 1].tool_result.call_id = E[j - 1].tool_call.id
            /\ InFlight \in {0, 1}
            /\ (InFlight = 1) = (pc = "executing")
            /\ CountType(output, "CompletionFinished") = 1 => Len(E) = Len(acc)

C9_Witness ==
    /\ Len(Executes) = 2
    /\ Executes[1].tool_call.id # Executes[2].tool_call.id
    /\ CountType(output, "CompletionFinished") = 1

(***************************************************************************)
(* C1: when the stream delivered exactly one terminal event, as its last   *)
(* event, and neither the provider, nor the parse of the argument text,    *)
(* nor the executor failed, the output of the ended generator holds        *)
(* exactly one CompletionFinished, as its last event.                      *)
(* The code breaks it: a started call with an empty id or name makes       *)
(* ToolCall(...) raise ValueError while the terminal event is handled.     *)
(***************************************************************************)
C1_ExactlyOneCompletionFinished ==
    ( /\ delivered # <<>>
      /\ FirstTerminal(delivered) = Len(delivered)
      /\ pc \in {"done", "failed"}
      /\ error \notin ProviderErrors \cup
            {"JSONDecodeError", "ToolNotFoundError", "ToolExecutionError"} )
    => /\ CountType(output, "CompletionFinished") = 1
       /\ output[Len(output)].type = "CompletionFinished"

(***************************************************************************)
(* C6: once the terminal event has been handled, every started call has    *)
(* had exactly one ToolCallCompleted, with its parsed arguments, whether   *)
(* or not an argument fragment followed its start.  Stated for the runs    *)
(* in which nothing else stands in the way: every started call has a       *)
(* non-empty id and name, its text is empty or well-formed, and neither    *)
(* the provider nor the executor failed.                                   *)
(* The code breaks it: json.loads('') raises for a call without argument   *)
(* fragments.                                                              *)
(***************************************************************************)
C6_CompletedForEveryStartedCall ==
    ( /\ delivered # <<>>
      /\ FirstTerminal(delivered) = Len(delivered)
      /\ AtRest
      /\ error \notin ProviderErrors \cup {"ToolNotFoundError", "ToolExecutionError"}
      /\ \A j \in 1..Len(acc) :
            /\ ToolCallValid(acc[j].id, acc[j].name)
            /\ acc[j].arguments = <<>> \/ JsonLoads(acc[j].arguments).ok )
    => /\ CountType(output, "ToolCallCompleted") = Len(acc)
       /\ \A j \in 1..Len(acc) :
            OfType(output, "ToolCallCompleted")[j].tool_call.id = acc[j].id

(***************************************************************************)
(* C11: the j-th CompletionFinished yielded carries the prompt and         *)
(* completion token counts of the j-th terminal event delivered, and a     *)
(* total that is their sum; the counts are never negative.                 *)
(***************************************************************************)
C11_UsageFromTerminal ==
    LET fin == OfType(delivered, "LLMFinished")
        cf == OfType(output, "CompletionFinished")
    IN  /\ Len(cf) <= Len(fin)
        /\ \A j \in 1..Len(cf) :
            /\ cf[j].usage.prompt_tokens = fin[j].prompt_tokens
            /\ cf[j].usage.completion_tokens = fin[j].completion_tokens
            /\ cf[j].usage.total_tokens = fin[j].prompt_tokens + fin[j].completion_tokens
            /\ cf[j].usage.prompt_tokens >= 0
            /\ cf[j].usage.completion_tokens >= 0
            /\ cf[j].finish_reason = fin[j].finish_reason

C11_Witness ==
    /\ CountType(output, "CompletionFinished") = 2
    /\ OfType(output, "CompletionFinished")[1].usage = UsageStats(10, 5, 15)
    /\ OfType(output, "CompletionFinished")[2].usage = UsageStats(0, 1, 1)

(***************************************************************************)
(* C12: when the consumer stops consuming before the terminal event, the   *)
(* provider stream is closed, and after the stop no provider event is      *)
(* read and no tool execution is started.                                  *)
(* The code breaks the first part: execute never closes the provider       *)
(* stream; the stream is closed only if the runtime finalizes it.          *)
(***************************************************************************)
C12_AbandonReleasesStream ==
    \A i \in 1..Len(calls) :
        calls[i].op = "abandoned" =>
            /\ \E j \in (i + 1)..Len(calls) : calls[j].op = "stream_completion.aclose"
            /\ \A j \in (i + 1)..Len(calls) : calls[j].op # "execute"
            /\ Len(delivered) = calls[i].read
            /\ Len(output) = calls[i].at

(***************************************************************************)
(* C13: two calls of execute interleaved on one use-case instance do not   *)
(* share accumulator state.  For each of the two calls, what it has        *)
(* yielded and the tool calls it has handed to the executor are at every   *)
(* moment a prefix of what the call yields and executes when it consumes   *)
(* its own provider events alone, and the whole of it, with the same       *)
(* failure if any, whenever the call is suspended on its provider stream   *)
(* or has ended.                                                           *)
(***************************************************************************)
IsPrefix(a, b) == Len(a) <= Len(b) /\ SubSeq(b, 1, Len(a)) = a

ExecutedBy(f) ==
    LET E == SelectSeq(f.calls, LAMBDA c : c.op = "execute")
    IN  [i \in 1..Len(E) |-> E[i].tool_call]

AgreesWithRunAlone(f) ==
    LET r == RunAlone(f.delivered, registry)
    IN  /\ IsPrefix(f.output, r.out)
        /\ IsPrefix(ExecutedBy(f), r.execs)
        /\ f.pc \in {"await_event", "done", "failed"} =>
                /\ f.output = r.out
                /\ ExecutedBy(f) = r.execs
                /\ f.error = r.exc

C13_NoSharedAccumulator ==
    /\ AgreesWithRunAlone(Locals)
    /\ AgreesWithRunAlone(parked)

C13_Witness ==
    /\ pc = "done"
    /\ Len(acc) = 1
    /\ acc[1].id = "call_1"
    /\ CountType(output, "ToolResultAvailable") = 1
    /\ parked.pc = "failed"
    /\ parked.error = "ToolExecutionError"
    /\ Len(parked.acc) = 1
    /\ parked.acc[1].id = "call_2"
    /\ Len(parked.delivered) = 3

(***************************************************************************)
(* C14: when the provider stream fails before its terminal event, execute  *)
(* ends with the provider's failure; what it has yielded is exactly what   *)
(* the events delivered before the failure produce (TextDelta,             *)
(* ToolCallStarted and ToolCallArgumentChunk events only), no tool has     *)
(* been executed and no CompletionFinished has been added.                 *)
(***************************************************************************)
C14_ProviderFailurePropagates ==
    (pc = "failed" /\ error \in ProviderErrors /\ FirstTerminal(delivered) = 0) =>
        /\ RunAlone(delivered, registry).exc = "none"
        /\ output = RunAlone(delivered, registry).out
        /\ \A i \in 1..Len(output) :
                output[i].type \in {"TextDelta", "ToolCallStarted", "ToolCallArgumentChunk"}
        /\ Executes = <<>>
        /\ Len(calls) = 2

C14_Witness ==
    /\ pc = "failed"
    /\ error = "RateLimitError"
    /\ Len(delivered) = 2
    /\ delivered[1].type = "LLMTextDelta"
    /\ IsStart(delivered[2])
    /\ Len(output) = 3
    /\ Len(acc) = 1

(***************************************************************************)
(* C15: a stream made of a start fragment with an id, an empty name and    *)
(* no argument text, followed by the terminal event, is consumed to its    *)
(* end without a failure, and a ToolCallStarted with the empty name is     *)
(* among the events yielded.                                               *)
(* The code breaks it: the ToolCallStarted is yielded, but at the terminal *)
(* event json.loads('') raises (and ToolCall(...) would refuse the empty   *)
(* name next).                                                             *)
(***************************************************************************)
C15_EmptyToolNameHandled ==
    ( /\ Len(delivered) = 2
      /\ delivered[1] = EmptyNameStart
      /\ delivered[2].type = "LLMFinished"
      /\ error \notin ProviderErrors )
    => /\ pc # "failed"
       /\ \E i \in 1..Len(output) :
            output[i].type = "ToolCallStarted" /\ output[i].tool_name = ""

(***************************************************************************)
(* C16: every ToolCall carried by a ToolCallCompleted that was yielded,    *)
(* and every ToolCall handed to the executor, has a non-empty id and a     *)
(* non-empty name, whatever ids and names the provider sent.               *)
(***************************************************************************)
C16_ToolCallNeverEmpty ==
    /\ \A i \in 1..Len(output) :
            output[i].type = "ToolCallCompleted" =>
                /\ output[i].tool_call.id \notin {"", None}
                /\ output[i].tool_call.name \notin {"", None}
    /\ \A i \in 1..Len(calls) :
            calls[i].op = "execute" =>
                /\ calls[i].tool_call.id \notin {"", None}
                /\ calls[i].tool_call.name \notin {"", None}

C16_Witness ==
    /\ pc = "failed"
    /\ error = "ValueError"
    /\ Len(acc) = 2
    /\ acc[2].name = ""
    /\ CountType(output, "ToolCallCompleted") = 1
    /\ Len(Executes) = 1

(***************************************************************************)
(* What stream_events has sent, against the events it has taken.           *)
(***************************************************************************)
IsTransmitted(e) ==
    e.type \in {"TextDelta", "ToolCallCompleted", "ToolResultAvailable", "CompletionFinished"}

\* the events stream_events has taken that the protocol transmits
Transmitted == SelectSeq(SubSeq(output, 1, response.consumed), IsTransmitted)

Tag(type) ==
    CASE type = "TextDelta" -> "0"
      [] type = "ToolCallCompleted" -> "9"
      [] type = "ToolResultAvailable" -> "a"
      [] type = "CompletionFinished" -> "e"

\* the JSON text of a line: what follows the tag and the colon
Payload(line) == SubSeq(line, 3, Len(line))

\* decoding the payload gives back the id, the name and the arguments
DecodesTo(line, tc) ==
    LET decoded == JsonLoads(Payload(line))
    IN  /\ decoded.ok
        /\ HasMember(decoded.val, Chars("toolCallId"))
        /\ Member(decoded.val, Chars("toolCallId")) = [str |-> Chars(tc.id)]
        /\ HasMember(decoded.val, Chars("toolName"))
        /\ Member(decoded.val, Chars("toolName")) = [str |-> Chars(tc.name)]
        /\ HasMember(decoded.val, Chars("args"))
        /\ Member(decoded.val, Chars("args")) = tc.arguments

(***************************************************************************)
(* C17: what the endpoint has sent is, in order, one line for each         *)
(* TextDelta, ToolCallCompleted, ToolResultAvailable and                   *)
(* CompletionFinished that stream_events has taken: the line begins with   *)
(* the tag of the event's type and a colon, ends with its only newline,    *)
(* and carries the event's text or ids; ToolCallStarted and                *)
(* ToolCallArgumentChunk format to the empty string and add nothing.       *)
(***************************************************************************)
C17_WireLines ==
    /\ Len(response.sent) = Len(Transmitted)
    /\ \A j \in 1..Len(response.sent) :
        LET line == response.sent[j]
            e == Transmitted[j]
        IN  /\ Len(line) >= 3
            /\ line[1] = Tag(e.type)
            /\ line[2] = ":"
            /\ line[Len(line)] = "\n"
            /\ \A i \in 1..(Len(line) - 1) : line[i] # "\n"
            /\ e.type = "TextDelta" =>
                    JsonLoads(Payload(line)) = [ok |-> TRUE, val |-> [str |-> Chars(e.content)]]
            /\ e.type = "ToolCallCompleted" => DecodesTo(line, e.tool_call)
    /\ \A i \in 1..Len(output) :
            ~IsTransmitted(output[i]) => FormatEvent(output[i]) = <<>>

C17_Witness ==
    /\ response.consumed = 6
    /\ Len(output) = 6
    /\ output[1].type = "TextDelta"
    /\ output[2].type = "ToolCallStarted"
    /\ output[3].type = "ToolCallArgumentChunk"
    /\ Len(response.sent) = 4
    /\ response.sent[4][1] = "e"

(***************************************************************************)
(* C18: for every ToolCall, decoding the JSON payload of the line          *)
(* format_event makes of its ToolCallCompleted gives back the call's id,   *)
(* name and arguments.                                                     *)
(* The code breaks it: the id and the name are put between quotes as they  *)
(* are, so a quote or a backslash in them changes or breaks the payload.   *)
(***************************************************************************)
C18_CompletedRoundTrip ==
    \A j \in 1..Len(response.sent) :
        Transmitted[j].type = "ToolCallCompleted" =>
            DecodesTo(response.sent[j], Transmitted[j].tool_call)

(***************************************************************************)
(* C19: ToolExecutor.execute has three outcomes.  It fails with            *)
(* ToolNotFoundError exactly when the call's name is absent from the       *)
(* registry, never wrapped as an execution failure; it fails with          *)
(* ToolExecutionError carrying the tool's name and the original error when *)
(* the validation of the input or the tool itself fails; otherwise it      *)
(* returns a ToolResult whose call_id and name are the call's id and name. *)
(* The registry is unchanged in all three cases.                           *)
(***************************************************************************)
C19_ExecuteOutcomes ==
    [][ /\ registry' = registry
        /\ (pc = "after_completed") =>
              IF tool_call.name \notin RegisteredNames(registry)
              THEN /\ pc' = "failed"
                   /\ error' = "ToolNotFoundError"
                   /\ raised'.type = "ToolNotFoundError"
              ELSE IF ~SchemaAccepts(tool_call.arguments)
              THEN /\ pc' = "failed"
                   /\ error' = "ToolExecutionError"
                   /\ raised'.type = "ToolExecutionError"
                   /\ raised'.tool_name = tool_call.name
                   /\ raised'.original_error \in {"TypeError", "ValidationError"}
              ELSE /\ pc' = "executing"
                   /\ error' = "none"
                   /\ output' = output
        /\ (pc = "executing") =>
              IF ToolNamed(registry, tool_call.name).raises
              THEN /\ pc' = "failed"
                   /\ error' = "ToolExecutionError"
                   /\ raised' = ToolExecutionError(tool_call.name, "ValueError")
                   /\ output' = output
              ELSE /\ pc' = "after_result"
                   /\ error' = "none"
                   /\ Len(output') = Len(output) + 1
                   /\ LET yielded == output'[Len(output')]
                      IN  /\ yielded.type = "ToolResultAvailable"
                          /\ yielded.tool_result.call_id = tool_call.id
                          /\ yielded.tool_result.name = tool_call.name
      ]_vars

\* a registered tool's input was rejected by its schema
C19_Witness ==
    /\ pc = "failed"
    /\ tool_call.name = "mock_tool"
    /\ tool_call.name \in RegisteredNames(registry)
    /\ tool_call.arguments = [obj |-> << [k |-> <<"a">>, v |-> [str |-> <<"a">>]] >>]
    /\ raised = ToolExecutionError("mock_tool", "ValidationError")

(***************************************************************************)
(* C20: when the event sequence of the use case fails before yielding any  *)
(* event, POST /api/chat answers with an error status chosen by the kind   *)
(* of the failure: 429 for RateLimitError, 500 for ToolExecutionError and  *)
(* 502 for LLMProviderError.                                               *)
(***************************************************************************)
C20_ErrorStatusByKind ==
    (pc = "failed" /\ output = <<>>) =>
        /\ error = "RateLimitError" => response.status = 429
        /\ error = "ToolExecutionError" => response.status = 500
        /\ error = "LLMProviderError" => response.status = 502

(***************************************************************************)
(* C21: MessageMapper.to_domain keeps the order and expands the tool       *)
(* results.  For each client message, in input order, the output has one   *)
(* main message followed at once by one tool message per invocation in     *)
(* state result, in invocation order and with the invocation's toolCallId  *)
(* as tool_call_id; invocations in state call or partial-call give no tool *)
(* message: the output is as long as the input plus the number of result   *)
(* invocations.                                                            *)
(***************************************************************************)
StateResult(client_message) ==
    SelectSeq(client_message.toolInvocations, LAMBDA inv : inv.state = "result")

\* the number of result invocations of the first n client messages
RECURSIVE ResultsWithin(_, _)
ResultsWithin(client_messages, n) ==
    IF n = 0 THEN 0
    ELSE ResultsWithin(client_messages, n - 1) + Len(StateResult(client_messages[n]))

C21_ToDomainExpands ==
    (pc = "init" /\ calls # <<>> /\ calls[Len(calls)].op = "to_domain") =>
        LET client_messages == calls[Len(calls)].client_messages
            At(i) == i + ResultsWithin(client_messages, i - 1)
        IN  /\ Len(messages) =
                 Len(client_messages) + ResultsWithin(client_messages, Len(client_messages))
            /\ \A i \in 1..Len(client_messages) :
                  /\ messages[At(i)].role = client_messages[i].role
                  /\ messages[At(i)].role # "tool"
                  /\ messages[At(i)].content = Chars(client_messages[i].content)
                  /\ \A j \in 1..Len(StateResult(client_messages[i])) :
                        /\ messages[At(i) + j].role = "tool"
                        /\ messages[At(i) + j].tool_call_id =
                              StateResult(client_messages[i])[j].toolCallId

\* an assistant message with a call and two results, then a user message
C21_Witness ==
    /\ pc = "init"
    /\ calls # <<>>
    /\ calls[Len(calls)].op = "to_domain"
    /\ Len(calls[Len(calls)].client_messages) = 2
    /\ LET first == calls[Len(calls)].client_messages[1]
       IN  /\ Len(first.toolInvocations) = 2
           /\ first.toolInvocations[1].state = "call"
           /\ first.toolInvocations[2].state = "result"
    /\ Len(messages) = 3
    /\ messages[2].role = "tool"
    /\ messages[3].role = "user"

(***************************************************************************)
(* C22: constructing a Message fails exactly when its content is empty and *)
(* its role is not assistant, or its role is tool and its tool_call_id is  *)
(* absent or empty; in every other case it succeeds, so that every Message *)
(* that exists has a non-empty content unless it is an assistant's, and a  *)
(* non-empty tool_call_id if it is a tool's.                               *)
(***************************************************************************)
C22_MessageInvariants ==
    /\ \A i \in 1..Len(calls) :
          calls[i].op = "Message" =>
              ( (pc = "failed" /\ error = "ValueError" /\ i = Len(calls))
                <=> \/ calls[i].content = <<>> /\ calls[i].role # "assistant"
                    \/ calls[i].role = "tool" /\ calls[i].tool_call_id \in {None, ""} )
    /\ (calls # <<>> /\ calls[1].op = "Message") =>
          /\ Len(messages) = Len(calls) - (IF pc = "failed" THEN 1 ELSE 0)
          /\ \A n \in 1..Len(messages) :
                /\ messages[n].content # <<>> \/ messages[n].role = "assistant"
                /\ messages[n].role = "tool" => messages[n].tool_call_id \notin {None, ""}

\* a tool message with a content and an empty tool_call_id was refused after
\* an assistant message without content was constructed
C22_Witness ==
    /\ pc = "failed"
    /\ Len(calls) = 2
    /\ calls[2].op = "Message"
    /\ calls[2].role = "tool"
    /\ calls[2].content # <<>>
    /\ calls[2].tool_call_id = ""
    /\ Len(messages) = 1
    /\ messages[1].role = "assistant"
    /\ messages[1].content = <<>>

(***************************************************************************)
(* C23: every CompletionFinished the orchestrator emits when it is fed by  *)
(* the OpenAI adapter has a finish_reason that is one of stop, tool_calls, *)
(* length and content_filter.                                              *)
(***************************************************************************)
C23_FinishReasonValues ==
    \A n \in 1..Len(output) :
        output[n].type = "CompletionFinished" =>
            output[n].finish_reason \in {"stop", "tool_calls", "length", "content_filter"}

\* the usage came in a chunk without choices, after the chunk that reported
\* the finish reason, and the CompletionFinished has been emitted
C23_Witness ==
    /\ Len(stream) >= 2
    /\ stream[Len(stream)].choices = <<>>
    /\ stream[Len(stream)].usage # NoUsage
    /\ output # <<>>
    /\ output[Len(output)].type = "CompletionFinished"

(***************************************************************************)
(* C24: the accumulator is drained once the terminal event has been        *)
(* processed.  After the CompletionFinished of a terminal event, no tool   *)
(* call recorded before that terminal event is completed or executed       *)
(* again, whatever the provider delivers next: a call executed for a later *)
(* terminal event was started after the earlier one.                       *)
(***************************************************************************)
C24_AccumulatorDrained ==
    \A i, j \in 1..Len(calls) :
        ( /\ i < j
          /\ calls[i].op = "execute"
          /\ calls[j].op = "execute"
          /\ calls[i].read < calls[j].read )
        => \E n \in (calls[i].read + 1)..(calls[j].read - 1) :
              /\ delivered[n].type = "LLMToolCallDelta"
              /\ delivered[n].id = calls[j].tool_call.id

(***************************************************************************)
(* C25: under any interleaving of the argument fragments of different      *)
(* started positions, each non-empty fragment yields at once one           *)
(* ToolCallArgumentChunk carrying the id recorded for the fragment's own   *)
(* position, and at the terminal event the arguments of each position's    *)
(* ToolCall are the parse of the concatenation of that position's          *)
(* fragments, in arrival order, whatever the fragments of the other        *)
(* positions.                                                              *)
(***************************************************************************)
\* every non-empty fragment comes after a start of its position
FragmentsOfStarted(d) ==
    \A n \in 1..Len(d) :
        IsFragment(d[n]) =>
            \E m \in 1..n : IsStart(d[m]) /\ d[m].index = d[n].index

\* the id recorded for the position of fragment n when it arrives
RecordedId(d, n) ==
    LET m == CHOOSE m \in 1..n :
                /\ IsStart(d[m])
                /\ d[m].index = d[n].index
                /\ \A q \in (m + 1)..n : ~(IsStart(d[q]) /\ d[q].index = d[n].index)
    IN  d[m].id

\* the indices of the non-empty fragments among the first n events
FragmentIndices(d, n) == {q \in 1..n : IsFragment(d[q])}

\* the argument text position p has received after event m, in arrival order
RECURSIVE TextOf(_, _, _)
TextOf(d, p, m) ==
    IF Len(d) <= m THEN <<>>
    ELSE TextOf(SubSeq(d, 1, Len(d) - 1), p, m)
         \o (IF IsFragment(d[Len(d)]) /\ d[Len(d)].index = p
             THEN d[Len(d)].arguments_chunk ELSE <<>>)

C25_InterleavedFragments ==
    (FragmentsOfStarted(delivered) /\ TerminalLast(delivered)) =>
        LET d == delivered
            body == BeforeTerminal(d)
            chunks == OfType(output, "ToolCallArgumentChunk")
            completed == OfType(output, "ToolCallCompleted")
        IN  /\ Len(chunks) <= Cardinality(FragmentIndices(body, Len(body)))
            /\ (pc = "await_event" /\ FirstTerminal(d) = 0) =>
                  /\ Len(chunks) = Cardinality(FragmentIndices(body, Len(body)))
                  /\ (body # <<>> /\ IsFragment(body[Len(body)])) =>
                        output[Len(output)].type = "ToolCallArgumentChunk"
            /\ \A n \in FragmentIndices(body, Len(body)) :
                  LET j == Cardinality(FragmentIndices(body, n))
                  IN  j <= Len(chunks) =>
                         /\ chunks[j].arguments_chunk = body[n].arguments_chunk
                         /\ chunks[j].call_id = RecordedId(body, n)
            /\ \A c \in 1..Len(completed) :
                  \E m \in 1..Len(body) :
                     /\ IsStart(body[m])
                     /\ body[m].id = completed[c].tool_call.id
                     /\ JsonLoads(TextOf(body, body[m].index, m)).ok
                     /\ completed[c].tool_call.arguments =
                            JsonLoads(TextOf(body, body[m].index, m)).val

\* two positions started, the fragments of position 0 around the fragment
\* of position 1, and both calls completed
C25_Witness ==
    /\ Len(delivered) = 6
    /\ IsStart(delivered[1]) /\ delivered[1].index = 0
    /\ IsStart(delivered[2]) /\ delivered[2].index = 1
    /\ delivered[3] = LLMToolCallDelta(0, None, None, ChunkOpen)
    /\ delivered[4] = LLMToolCallDelta(1, None, None, ChunkWhole)
    /\ delivered[5] = LLMToolCallDelta(0, None, None, ChunkClose)
    /\ delivered[6].type = "LLMFinished"
    /\ CountType(output, "ToolCallArgumentChunk") = 3
    /\ CountType(output, "ToolCallCompleted") = 2
    /\ pc = "done"

(***************************************************************************)
(* C26: no ToolCallCompleted or ToolResultAvailable is emitted, and no     *)
(* tool execution is started, before the terminal event has been           *)
(* received.  Every TextDelta, ToolCallStarted and ToolCallArgumentChunk   *)
(* produced for the fragments that precede the terminal event comes before *)
(* every ToolCallCompleted in the output, the text fragments that arrive   *)
(* after the fragments of a tool call included.                            *)
(***************************************************************************)
\* the number of events execute yields for the fragments of d
RECURSIVE YieldedFor(_)
YieldedFor(d) ==
    IF d = <<>> THEN 0
    ELSE YieldedFor(Tail(d))
         + (IF Head(d).type = "LLMTextDelta" THEN 1 ELSE 0)
         + (IF IsStart(Head(d)) THEN 1 ELSE 0)
         + (IF IsFragment(Head(d)) THEN 1 ELSE 0)

C26_ToolsAfterTerminal ==
    /\ FirstTerminal(delivered) = 0 =>
          /\ \A n \in 1..Len(output) :
                output[n].type \notin {"ToolCallCompleted", "ToolResultAvailable"}
          /\ Executes = <<>>
          /\ pc \notin {"after_completed", "executing", "after_result"}
    /\ \A i \in 1..Len(calls) :
          calls[i].op = "execute" =>
              FirstTerminal(delivered) > 0 /\ calls[i].read >= FirstTerminal(delivered)
    /\ \A n \in 1..Len(output) :
          IF n <= YieldedFor(BeforeTerminal(delivered))
          THEN output[n].type \in {"TextDelta", "ToolCallStarted", "ToolCallArgumentChunk"}
          ELSE FirstTerminal(delivered) > 0

\* a text fragment arrived after the fragment of a tool call: its TextDelta
\* precedes the ToolCallCompleted
C26_Witness ==
    /\ Len(delivered) = 3
    /\ IsStart(delivered[1])
    /\ IsFragment(delivered[1])
    /\ delivered[2].type = "LLMTextDelta"
    /\ delivered[3].type = "LLMFinished"
    /\ Len(output) = 6
    /\ output[3].type = "TextDelta"
    /\ output[4].type = "ToolCallCompleted"
    /\ output[5].type = "ToolResultAvailable"
    /\ output[6].type = "CompletionFinished"

(***************************************************************************)
(* C27: a position must have been started before it can receive argument   *)
(* chunks.  A non-empty argument fragment for a position that no start     *)
(* fragment came for makes the event sequence fail at that fragment: no    *)
(* ToolCallArgumentChunk is emitted for it, no event is emitted later, and *)
(* the events yielded before it are left as they were.                     *)
(***************************************************************************)
\* event n of d is a non-empty fragment of a position not started before it
Unstarted(d, n) ==
    /\ IsFragment(d[n])
    /\ d[n].id = None
    /\ \A m \in 1..(n - 1) : ~(IsStart(d[m]) /\ d[m].index = d[n].index)

C27_FragmentBeforeStart ==
    [][ /\ ( /\ Len(delivered') = Len(delivered) + 1
             /\ Unstarted(delivered', Len(delivered')) )
           => /\ pc' = "failed"
              /\ error' = "KeyError"
              /\ output' = output
        /\ pc = "failed" => /\ pc' = "failed"
                            /\ output' = output
                            /\ delivered' = delivered
      ]_vars

\* the fragment of a position never started came after a text fragment
C27_Witness ==
    /\ pc = "failed"
    /\ error = "KeyError"
    /\ Len(delivered) = 2
    /\ delivered[1].type = "LLMTextDelta"
    /\ Unstarted(delivered, 2)
    /\ output = <<TextDelta(delivered[1].content)>>

(***************************************************************************)
(* C28: the OpenAI adapter satisfies the terminal-event assumption of the  *)
(* orchestrator.  For every upstream chunk stream that ends without error, *)
(* the adapter's event stream contains the terminal LLMFinished exactly    *)
(* once, as its last event.                                                *)
(* The code breaks it: it yields one LLMFinished for each chunk that       *)
(* carries usage and none for a finish reason alone, so a stream that      *)
(* stops without usage gives no terminal event, and a chunk after the      *)
(* usage gives events after it.                                            *)
(***************************************************************************)
C28_AdapterTerminalOnceLast ==
    pc = "done" =>
        LET events == AdapterEvents(stream)
        IN  /\ delivered = events
            /\ events # <<>>
            /\ events[Len(events)].type = "LLMFinished"
            /\ CountType(events, "LLMFinished") = 1

(***************************************************************************)
(* C29: the LLMFinished event the OpenAI adapter emits carries the finish  *)
(* reason the upstream reported for the completion (tool_calls when the    *)
(* upstream finished with tool calls) and the upstream's prompt and        *)
(* completion token counts, whether the finish reason and the usage arrive *)
(* in the same chunk or in different chunks.                               *)
(***************************************************************************)
\* chunk n of chs reports a finish reason
ReportsFinish(chs, n) ==
    chs[n].choices # <<>> /\ chs[n].choices[1].finish_reason # None

\* the upstream has reported one finish reason and, in its last chunk only,
\* the usage
ReportedOnce(chs) ==
    /\ chs # <<>>
    /\ Cardinality({n \in 1..Len(chs) : ReportsFinish(chs, n)}) = 1
    /\ \A n \in 1..Len(chs) : (chs[n].usage # NoUsage) <=> (n = Len(chs))

\* the finish reason the upstream reported: that of the one choice that has one
ReportedFinishReason(chs) ==
    LET n == CHOOSE n \in 1..Len(chs) : ReportsFinish(chs, n)
    IN  chs[n].choices[1].finish_reason

C29_FinishReasonReported ==
    ReportedOnce(stream) =>
        LET events == AdapterEvents(stream)
            usage == stream[Len(stream)].usage
        IN  events[Len(events)] =
                LLMFinished(ReportedFinishReason(stream), usage.prompt_tokens,
                            usage.completion_tokens)

(***************************************************************************)
(* C30: after any sequence of register_tool calls on a ToolExecutor,       *)
(* get_registered_tools returns exactly one tool per distinct registered   *)
(* name, the tool most recently registered under that name; registering    *)
(* under an existing name replaces the old tool and does not grow the      *)
(* registry, and a new executor has an empty registry.                     *)
(***************************************************************************)
C30_RegistryByName ==
    LET registered == SelectSeq(calls, LAMBDA c : c.op = "register_tool")
        names == {registered[n].tool.name : n \in 1..Len(registered)}
        Latest(name) ==
            registered[CHOOSE n \in 1..Len(registered) :
                          /\ registered[n].tool.name = name
                          /\ \A m \in (n + 1)..Len(registered) :
                                registered[m].tool.name # name].tool
        returned == GetRegisteredTools(registry)
    IN  /\ registered = <<>> => returned = <<>>
        /\ Len(returned) = Cardinality(names)
        /\ \A name \in names :
              \E i \in 1..Len(returned) : returned[i] = Latest(name)
        /\ \A i \in 1..Len(returned) : returned[i].name \in names
        /\ pc = "await_event" => tools = returned

\* mock_tool registered, then failing_tool, then another tool under the name
\* mock_tool; execute has asked for the tools
C30_Witness ==
    /\ pc = "await_event"
    /\ Len(calls) = 5
    /\ calls[1].op = "register_tool" /\ calls[1].tool = MockTool
    /\ calls[2].op = "register_tool" /\ calls[2].tool = FailingTool
    /\ calls[3].op = "register_tool" /\ calls[3].tool = [name |-> "mock_tool", raises |-> TRUE]
    /\ tools = <<[name |-> "mock_tool", raises |-> TRUE], FailingTool>>

(***************************************************************************)
(* C31: if the provider stream ends normally without ever delivering a     *)
(* terminal event, execute ends normally as well, having emitted no        *)
(* CompletionFinished and no ToolCallCompleted and having executed no      *)
(* tool, even when tool calls were started and their arguments fully       *)
(* accumulated: the output is what the fragments yielded, nothing more.    *)
(***************************************************************************)
C31_EndWithoutTerminal ==
    /\ (pc = "done" /\ FirstTerminal(delivered) = 0) =>
          /\ error = "none"
          /\ CountType(output, "CompletionFinished") = 0
          /\ CountType(output, "ToolCallCompleted") = 0
          /\ CountType(output, "ToolResultAvailable") = 0
          /\ Executes = <<>>
          /\ Len(output) = YieldedFor(delivered)
    /\ FirstTerminal(delivered) = 0 =>
          pc \in {"init", "await_event", "after_started", "done", "failed"}

\* a tool call was started and its whole argument text received, then the
\* stream ended
C31_Witness ==
    /\ pc = "done"
    /\ FirstTerminal(delivered) = 0
    /\ Len(acc) = 1
    /\ acc[1].arguments = ChunkWhole
    /\ JsonLoads(acc[1].arguments).ok
    /\ acc[1].name = "mock_tool"
    /\ registry # <<>>
    /\ output = <<ToolCallStarted(acc[1].id, "mock_tool"),
                  ToolCallArgumentChunk(acc[1].id, ChunkWhole)>>

(***************************************************************************)
(* C32: if a second fragment with a non-null id arrives for a position     *)
(* that was already started, a second ToolCallStarted is emitted, the      *)
(* position's entry is replaced (the argument text accumulated so far is   *)
(* discarded), and at the terminal event exactly one ToolCallCompleted is  *)
(* emitted for that position, carrying the latest id and name and only the *)
(* argument text received after the latest start; the position keeps its   *)
(* original place in the completion order.                                 *)
(***************************************************************************)
\* the started positions of d, in the order of their first start
RECURSIVE PositionOrder(_)
PositionOrder(d) ==
    IF d = <<>> THEN <<>>
    ELSE LET rest == PositionOrder(SubSeq(d, 1, Len(d) - 1))
             e == d[Len(d)]
         IN  IF IsStart(e) /\ \A i \in 1..Len(rest) : rest[i] # e.index
             THEN Append(rest, e.index)
             ELSE rest

\* the index in d of the latest start of position p
LatestStart(d, p) ==
    CHOOSE m \in 1..Len(d) :
        /\ IsStart(d[m]) /\ d[m].index = p
        /\ \A q \in (m + 1)..Len(d) : ~(IsStart(d[q]) /\ d[q].index = p)

\* position p was started more than once in d
Restarted(d, p) ==
    \E m, n \in 1..Len(d) :
        m < n /\ IsStart(d[m]) /\ IsStart(d[n]) /\ d[m].index = p /\ d[n].index = p

\* what the latest start of position p and the fragments from it on amount to
LatestEntry(d, p) ==
    LET m == LatestStart(d, p)
    IN  [index |-> p, id |-> d[m].id, name |-> OrEmpty(d[m].name),
         arguments |-> TextOf(d, p, m - 1)]

C32_RestartedPosition ==
    LET d == delivered
        order == PositionOrder(d)
        started == OfType(output, "ToolCallStarted")
        completed == OfType(output, "ToolCallCompleted")
        starts == SelectSeq(d, IsStart)
    IN  /\ started = [n \in 1..Len(starts) |->
                        ToolCallStarted(starts[n].id, OrEmpty(starts[n].name))]
        /\ Len(acc) = Len(order)
        /\ \A j \in 1..Len(order) :
              Restarted(d, order[j]) =>
                 /\ acc[j].index = order[j]
                 /\ acc[j].id = LatestEntry(d, order[j]).id
                 /\ acc[j].name = LatestEntry(d, order[j]).name
                 /\ AtRest =>
                        acc[j].arguments = LatestEntry(d, order[j]).arguments
                 /\ (pc = "after_started" /\ event.index = order[j]) =>
                        acc[j].arguments = <<>>
        /\ TerminalLast(d) =>
              /\ Len(completed) <= Len(order)
              /\ \A j \in 1..Len(completed) :
                    Restarted(d, order[j]) =>
                       LET entry == LatestEntry(BeforeTerminal(d), order[j])
                       IN  /\ JsonLoads(entry.arguments).ok
                           /\ completed[j].tool_call =
                                 ToolCall(entry.id, entry.name,
                                          JsonLoads(entry.arguments).val)
              /\ (pc = "done" /\ FirstTerminal(d) > 0) => Len(completed) = Len(order)

\* position 0 is started, receives text, then position 1 is started and
\* position 0 is started again under a new id; both calls are completed,
\* the one of position 0 first
C32_Witness ==
    /\ pc = "done"
    /\ Len(delivered) = 6
    /\ IsStart(delivered[1]) /\ delivered[1].index = 0
    /\ IsStart(delivered[2]) /\ delivered[2].index = 1
    /\ delivered[3] = LLMToolCallDelta(1, None, None, ChunkWhole)
    /\ IsStart(delivered[4]) /\ delivered[4].index = 0
    /\ delivered[4].id # delivered[1].id
    /\ delivered[5] = LLMToolCallDelta(0, None, None, ChunkWhole)
    /\ delivered[6].type = "LLMFinished"
    /\ CountType(output, "ToolCallStarted") = 3
    /\ CountType(output, "ToolCallCompleted") = 2
    /\ OfType(output, "ToolCallCompleted")[1].tool_call.id = delivered[4].id
    /\ OfType(output, "ToolCallCompleted")[2].tool_call.id = delivered[2].id

(***************************************************************************)
(* C33: a single tool-call fragment that carries both a non-null id and a  *)
(* non-empty argument chunk yields ToolCallStarted immediately followed by *)
(* ToolCallArgumentChunk with that same id, and the chunk is kept as the   *)
(* beginning of that position's accumulated argument text.                 *)
(***************************************************************************)
\* when execute is at rest, the text of every position whose latest start
\* carried a chunk begins with that chunk
StartChunksKept ==
    AtRest =>
        \A j \in 1..Len(acc) :
            LET m == LatestStart(delivered, acc[j].index)
            IN  IsFragment(delivered[m]) =>
                    IsPrefix(delivered[m].arguments_chunk, acc[j].arguments)

C33_StartWithChunk ==
    [][ /\ pc' = "after_started" =>
              /\ IsStart(event')
              /\ output' = Append(output, ToolCallStarted(event'.id, OrEmpty(event'.name)))
        /\ (pc = "after_started" /\ IsFragment(event)) =>
              /\ output' = Append(output,
                                  ToolCallArgumentChunk(event.id, event.arguments_chunk))
              /\ acc'[AccAt(acc', event.index)].arguments = event.arguments_chunk
              /\ pc' = "await_event"
        /\ StartChunksKept'
      ]_vars

\* a start that carried the whole text, then one more fragment for its
\* position
C33_Witness ==
    /\ pc = "await_event"
    /\ Len(delivered) = 2
    /\ IsStart(delivered[1]) /\ delivered[1].arguments_chunk = ChunkWhole
    /\ delivered[2] = LLMToolCallDelta(delivered[1].index, None, None, ChunkDigit)
    /\ output = <<ToolCallStarted(delivered[1].id, OrEmpty(delivered[1].name)),
                  ToolCallArgumentChunk(delivered[1].id, ChunkWhole),
                  ToolCallArgumentChunk(delivered[1].id, ChunkDigit)>>
    /\ acc[1].arguments = ChunkWhole \o ChunkDigit

(***************************************************************************)
(* C34: whether accumulated tool calls are completed and executed at the   *)
(* terminal event depends only on the accumulator being non-empty, never   *)
(* on the terminal event's finish reason: with at least one started        *)
(* position, the tool calls are parsed and executed for finish reason      *)
(* stop, length and content_filter exactly as for tool_calls.  Stated for  *)
(* every finish reason at once: once the terminal event has been handled,  *)
(* every entry of the accumulator has been parsed, completed and handed to *)
(* the executor, in order, unless a parse or an execution failed.          *)
(***************************************************************************)
C34_FinishReasonIgnored ==
    (TerminalLast(delivered) /\ FirstTerminal(delivered) > 0 /\ acc # <<>>) =>
        LET completed == OfType(output, "ToolCallCompleted")
            results == OfType(output, "ToolResultAvailable")
            reason == delivered[Len(delivered)].finish_reason
        IN  /\ reason \in {"stop", "tool_calls", "length", "content_filter"}
            /\ pc \in {"await_event", "done"} =>
                  /\ Len(completed) = Len(acc)
                  /\ Len(Executes) = Len(acc)
                  /\ Len(results) = Len(acc)
                  /\ output[Len(output)].type = "CompletionFinished"
                  /\ output[Len(output)].finish_reason = reason
            /\ Len(completed) <= Len(acc)
            /\ \A j \in 1..Len(completed) :
                  /\ MakeToolCall(acc[j]).exc = "none"
                  /\ completed[j].tool_call = MakeToolCall(acc[j]).tool_call
            /\ Len(Executes) \in {Len(completed) - 1, Len(completed)}
            /\ \A j \in 1..Len(Executes) : Executes[j].tool_call = completed[j].tool_call
            /\ pc = "failed" =>
                  \/ /\ error \in {"JSONDecodeError", "ValueError"}
                     /\ Len(completed) < Len(acc)
                     /\ MakeToolCall(acc[Len(completed) + 1]).exc = error
                     /\ Len(Executes) = Len(completed)
                  \/ /\ error \in {"ToolNotFoundError", "ToolExecutionError"}
                     /\ Len(Executes) = Len(completed)
                     /\ Len(results) = Len(completed) - 1
                  \/ /\ error \in ProviderErrors
                     /\ Len(completed) = Len(acc)
                     /\ Len(Executes) = Len(acc)
                     /\ output[Len(output)].type = "CompletionFinished"

\* the stream ended for its length, with one tool call started: the call
\* is completed and executed
C34_Witness ==
    /\ pc = "done"
    /\ Len(delivered) = 2
    /\ IsStart(delivered[1])
    /\ delivered[2].type = "LLMFinished"
    /\ delivered[2].finish_reason = "length"
    /\ Len(Executes) = 1
    /\ Len(output) = 5
    /\ output[3].type = "ToolCallCompleted"
    /\ output[4].type = "ToolResultAvailable"
    /\ output[5] = CompletionFinished("length", UsageStats(0, 1, 1))

(***************************************************************************)
(* C35: argument text is parsed lazily, one tool call at a time: when      *)
(* several tool calls are pending at the terminal event and the argument   *)
(* text of a later one (in start order) is malformed, every earlier call   *)
(* has already been completed, executed by the tool executor and had its   *)
(* ToolResultAvailable emitted before the parse failure surfaces.          *)
(***************************************************************************)
\* the events yielded since the terminal event was read
SinceTerminal ==
    SubSeq(output, YieldedFor(BeforeTerminal(delivered)) + 1, Len(output))

C35_LazyParsing ==
    (/\ TerminalLast(delivered)
     /\ FirstTerminal(delivered) > 0
     /\ pc = "failed"
     /\ error = "JSONDecodeError") =>
        LET j == CHOOSE j \in 1..Len(acc) :
                    Malformed(j) /\ \A i \in 1..(j - 1) : ~Malformed(i)
            tail == SinceTerminal
        IN  /\ \E i \in 1..Len(acc) : Malformed(i)
            /\ Len(tail) = 2 * (j - 1)
            /\ Len(Executes) = j - 1
            /\ \A i \in 1..(j - 1) :
                  /\ tail[2 * i - 1] = ToolCallCompleted(MakeToolCall(acc[i]).tool_call)
                  /\ Executes[i].tool_call = MakeToolCall(acc[i]).tool_call
                  /\ Executes[i].at = Len(output) - Len(tail) + 2 * i - 1
                  /\ tail[2 * i].type = "ToolResultAvailable"
                  /\ tail[2 * i].tool_result.call_id = acc[i].id
                  /\ tail[2 * i].tool_result.name = acc[i].name

\* two calls pending at the terminal event, the text of the second one cut
\* short: the first call was completed and executed, then the parse failed
C35_Witness ==
    /\ pc = "failed"
    /\ error = "JSONDecodeError"
    /\ Len(delivered) = 5
    /\ delivered[5].type = "LLMFinished"
    /\ Len(acc) = 2
    /\ acc[1].arguments = ChunkWhole
    /\ acc[2].arguments = ChunkOpen
    /\ Len(Executes) = 1
    /\ Len(output) = 6
    /\ output[5].type = "ToolCallCompleted"
    /\ output[6] = ToolResultAvailable(ExecuteResult(output[5].tool_call))

(***************************************************************************)
(* C36: in every message list returned by MessageMapper.to_domain, each    *)
(* TOOL-role message is preceded, with only other TOOL-role messages in    *)
(* between, by an assistant message whose tool_calls contain a ToolCall    *)
(* with the same id as the TOOL message's tool_call_id, for client         *)
(* messages of any role carrying tool invocations.                         *)
(***************************************************************************)
\* message n of msgs, a tool message, answers a call of the assistant
\* message that the tool messages before it follow
AnswersAssistant(msgs, n) ==
    \E m \in 1..(n - 1) :
        /\ msgs[m].role = "assistant"
        /\ \A q \in (m + 1)..(n - 1) : msgs[q].role = "tool"
        /\ \E i \in 1..Len(msgs[m].tool_calls) :
              msgs[m].tool_calls[i].id = msgs[n].tool_call_id

C36_ToolMessagesAnswerAssistant ==
    (pc = "init" /\ calls # <<>> /\ calls[Len(calls)].op = "to_domain") =>
        \A n \in 1..Len(messages) :
            messages[n].role = "tool" => AnswersAssistant(messages, n)

====
